---- MODULE Spec2Model ----
(***************************************************************************)
(* Model of the offline-submission synchronisation engine of the forms     *)
(* backend: controllers/syncController.js (syncSubmissions), the           *)
(* transactional unit of work of database/transaction.js                   *)
(* (executeTransaction, query, getConnection) and the object store client  *)
(* of services/s3Service.js (putObject).                                   *)
(*                                                                         *)
(* Every `await` of the code is one step of the model, so that concurrent  *)
(* requests interleave exactly where the host runtime can switch between   *)
(* them.  Every awaited call on the relational store or the object store   *)
(* either returns or throws; a throw is the choice ok = FALSE.             *)
(*                                                                         *)
(* Relational store: a statement run on a reserved connection inside a     *)
(* transaction writes to that connection's pending rows (tx); commit moves *)
(* them to the committed tables, rollback drops them.  A failed commit     *)
(* leaves the rows pending; a failed rollback means the connection is lost *)
(* and the server drops the pending rows.  An insert whose unique key is   *)
(* held by a pending row of another transaction waits for it; one whose    *)
(* unique key is committed fails with a duplicate-entry error.             *)
(***************************************************************************)
EXTENDS Integers, Sequences, FiniteSets, TLC

\* ---------------------------------------------------------------- bounds
\* concurrent syncSubmissions requests
NumCalls == 2
\* submissions of one request
MaxBatch == 2
\* submissions of all requests of a run together
MaxItems == 3
\* how many awaited calls the environment makes throw in one run
MaxFaults == 2
\* concurrent callers of executeTransaction
NumUnits == 1
\* config.db.connectionLimit (DB_CONNECTION_LIMIT): the size of the pool
connectionLimit == 2

Calls == 1..NumCalls
Units == 1..NumUnits
NoId == 0
NoBlob == "absent"
NoDevice == "none"
\* multipart uploads the object store can hold, parts of one upload,
\* concurrent multipart requests and multipart requests of a run
NumUploads == 2
MaxParts == 2
NumFileReqs == 2
\* completeFileUpload requests beside a syncSubmissions request
MaxRegisters == 1
MaxFileReqs == 3
Handles == 1..NumUploads
FileReqs == 1..NumFileReqs
\* concurrent createSubmission requests
NumCreates == 2
Creates == 1..NumCreates
\* concurrent form template requests, and those of a run
NumFormReqs == 2
MaxFormReqs == 2
FormReqs == 1..NumFormReqs
\* deleteForm requests beside a syncSubmissions request
MaxDeletes == 1
\* rows of sync_queue and hours of a run of getSyncStatus
MaxRows == 104
MaxRuns == 2
MaxHours == 26
ProjectIds == {1}
\* concurrent updateSubmissionStatus requests, and those of a run
NumUpdates == 2
MaxUpdates == 2
Updates == 1..NumUpdates

\* ---------------------------------------------------------------- inputs
\* the submissions a device may send.  Templates 1 and 2 exist, each with
\* version 1; template 3 and version 2 do not.  s3ObjectId = NoId stands for
\* an attachment without identifier.
Items ==
    { [uuid |-> "a1", formTemplateId |-> 1, formTemplateVersion |-> 1,
       data |-> "d1", status |-> "submitted", files |-> <<>>],
      [uuid |-> "a1", formTemplateId |-> 1, formTemplateVersion |-> 1,
       data |-> "d2", status |-> "draft",
       files |-> << [s3ObjectId |-> 7, fieldName |-> "photo"],
                    [s3ObjectId |-> NoId, fieldName |-> "sign"] >>],
      [uuid |-> "a1", formTemplateId |-> 2, formTemplateVersion |-> 1,
       data |-> "d1", status |-> "submitted", files |-> <<>>],
      [uuid |-> "b2", formTemplateId |-> 1, formTemplateVersion |-> 2,
       data |-> "d1", status |-> "submitted", files |-> <<>>],
      [uuid |-> "a1", formTemplateId |-> 3, formTemplateVersion |-> 1,
       data |-> "d1", status |-> "submitted", files |-> <<>>] }

\* what the callback of a unit of work returns
UnitResults == {"r1", "r2"}

VARIABLES
    \* relational connection pool (mysql.createPool)
    free,
    \* object store: key -> blob
    blobs,
    \* committed tables
    subs, objs, atts, logs, queue, users, templates, versions, projects,
    \* auto-increment counters of form_submissions and s3_objects
    nextSubId, nextObjId,
    \* one syncSubmissions call per element of Calls
    pc, req, submissions, results, syncedCount, errorCount, resp,
    \* the call's reserved connection: pending rows of its open transaction
    tx,
    \* locals of the loop body
    error, dataS3ObjectId, submissionId, fileIdx,
    \* history: connections reserved / released by the call, and every
    \* failure met while an item was processed, as <<item, where, message>>
    acquired, released, failures,
    \* number of awaited calls that have thrown so far
    faults,
    \* one caller of executeTransaction per element of Units
    upc, utx, uerr, uout, ureleased,
    \* history of the unit: whether executeTransaction was entered, the
    \* first failure raised in its try block, what the callback returned,
    \* and how often commit took effect and rollback was invoked
    uhist,
    \* object store: the multipart uploads by upload id, and the next id
    uploads, nextUpload,
    \* one multipart request of fileController.js per element of FileReqs:
    \* position, request body, the store's answer, the response, and the
    \* number of requests received so far
    fpc, freq, fres, fresp, fcount,
    \* presignedUrls of initiateMultipartUpload, per request
    furls,
    \* one createSubmission request per element of Creates: position,
    \* request (body, permissions and project membership of the user), and
    \* the response
    cpc, creq, cresp,
    \* one updateSubmissionStatus request per element of Updates: position,
    \* request (id, status, permissions and membership of the user), the
    \* status read by the lookup, the response, and the requests so far
    spc, sreq, sold, sresp, scount,
    \* form_templates rows, schema_cache rows, the form-schemas bucket
    \* (key -> schema), and the auto-increment counter of form_templates
    forms, cache, sblobs, nextFormId,
    \* one createForm / updateForm / deleteForm request per element of
    \* FormReqs: position, request, response, the pending changes of its
    \* open transaction, its locals, and the requests received so far
    tpc, treq, tresp, ttx, tres, tcount,
    \* the clock in hours; updated_at of the sync_queue rows, by surrogate
    \* id, with the row's user, device and status; the getSyncStatus request
    \* (user, device) and its completedItems
    now, stamps, qreq, completedItems, pendingItems,
    \* executeTransaction called by the callback of an executeTransaction on
    \* the same connection, per unit: how often the inner call began a
    \* transaction, ended the outer one, released the connection, and
    \* whether the inner call was made
    nest,
    \* POST /files/multipart/initiate as far as the object key: position of
    \* the request, its body and user, and the objectKey of lines 193-203
    kpc, kreq, kkey

catalog == <<templates, versions>>

\* the (form_template_id, version) pairs of the form_template_versions
\* rows; a row is <<form_template_id, version, schema_s3_object_id>>
VersionPairs == {<<v[1], v[2]>> : v \in versions}
tables == <<subs, objs, atts, logs, queue>>
counters == <<nextSubId, nextObjId>>
locals == <<error, dataS3ObjectId, submissionId, fileIdx>>
outs == <<results, syncedCount, errorCount, resp>>
poolHist == <<acquired, released>>
\* state of the callers of executeTransaction
unitVars == <<upc, utx, uerr, uout, ureleased, uhist, projects>>
\* state of syncSubmissions that no other operation touches
syncVars == <<blobs, subs, objs, atts, logs, queue, users, templates,
              versions, nextSubId, nextObjId, pc, req, submissions, results,
              syncedCount, errorCount, resp, tx, error, dataS3ObjectId,
              submissionId, fileIdx, acquired, released, failures>>

\* state of the multipart upload operations of fileController.js
fileVars == <<uploads, nextUpload, fpc, freq, fres, fresp, fcount, furls>>
\* state of the requests of submissionController.js
createVars == <<cpc, creq, cresp>>
statusVars == <<spc, sreq, sold, sresp, scount>>
\* state of getSyncStatus
queryVars == <<now, stamps, qreq, completedItems, pendingItems>>
\* state of the operations described further below
keyVars == <<kpc, kreq, kkey>>
laterVars == <<queryVars, nest, keyVars>>
\* state of the form template operations of formController.js
formVars == <<forms, cache, sblobs, nextFormId, tpc, treq, tresp, ttx, tres,
              tcount>>
moreVars == <<createVars, statusVars, formVars, laterVars>>
\* state of the operations other than syncSubmissions
restVars == <<unitVars, fileVars, moreVars>>

vars == <<free, faults, syncVars, unitVars, fileVars, moreVars>>

EmptyTx == [objs |-> {}, subs |-> {}, atts |-> {}, logs |-> {}, queue |-> {}]

Keys == {<<it.formTemplateId, it.uuid>> : it \in Items}

\* an empty updateSubmissionStatus request slot
NoUpdate == [id |-> NoId, status |-> "none", mayVerify |-> FALSE,
             mayCreateProject |-> FALSE, member |-> FALSE]

\* an empty createSubmission request slot
NoCreate == [body |-> CHOOSE it \in Items : TRUE, mayCreateProject |-> FALSE,
             member |-> FALSE]

\* an upload id the store has not handed out, and an empty request slot
NoUpload == [state |-> "none", issued |-> 0, put |-> {}]
NoFileReq == [kind |-> "none", h |-> 1, key |-> 1, parts |-> <<>>,
              named |-> FALSE, n |-> 0, objectKey |-> <<0, "none">>,
              meta |-> "none"]

\* the keys of the form-schemas bucket:
\* projects/<projectId>/form-templates/<name>-v<version>.json
SchemaKeys ==
    {<<100 + p, nv>> : p \in ProjectIds,
                       nv \in {"a-v1", "a-v2", "b-v1", "b-v2", "a-v3", "b-v3"}}

\* an empty form request slot, an empty transaction of a form request and
\* its empty locals
NoFormReq == [kind |-> "none", id |-> NoId, project |-> NoId, name |-> "none",
              schema |-> "none", access |-> "none"]
NoFormTx == [open |-> FALSE,
             objs |-> {}, forms |-> {}, versions |-> {}, cache |-> {},
             dels |-> {}, set |-> <<>>]
NoFormRes == [form |-> NoId, schema |-> NoId, version |-> 0, name |-> "none",
              project |-> NoId]

\* no form request has arrived
FormReqsIdle ==
    /\ tpc = [r \in FormReqs |-> "idle"]
    /\ treq = [r \in FormReqs |-> NoFormReq]
    /\ tresp = [r \in FormReqs |-> "none"]
    /\ ttx = [r \in FormReqs |-> NoFormTx]
    /\ tres = [r \in FormReqs |-> NoFormRes]
    /\ tcount = 0

\* the specifications of the other operations keep of the form templates
\* only their ids (templates) and versions
FormsIdle ==
    /\ forms = {} /\ cache = {}
    /\ sblobs = [k \in SchemaKeys |-> NoBlob]
    /\ nextFormId = 3
    /\ FormReqsIdle

\* no sync_queue row is timestamped and no getSyncStatus request was made
QueryIdle ==
    /\ now = 0
    /\ stamps = <<>>
    /\ qreq = [user |-> 0, device |-> "none", at |-> 0, rows |-> 0]
    /\ completedItems = <<>>
    /\ pendingItems = <<>>

\* no callback has called executeTransaction
NoNest == [called |-> FALSE, begins |-> 0, outerEnded |-> 0, releases |-> 0]
NestIdle == nest = [t \in Units |-> NoNest]

\* no initiate request has arrived; a field that is absent is 0 or "none"
NoKeyReq == [named |-> FALSE, submissionUuid |-> "none", formTemplateId |-> 0,
             projectId |-> 0, fieldName |-> "none", user |-> 0]
NoKey == [ns |-> "none", segs |-> <<>>]
KeyIdle == kpc = "idle" /\ kreq = NoKeyReq /\ kkey = NoKey

LaterIdle == QueryIdle /\ NestIdle /\ KeyIdle

Init ==
    /\ free = connectionLimit
    /\ blobs = [k \in Keys |-> NoBlob]
    /\ subs = {} /\ objs = {} /\ atts = {} /\ logs = {} /\ queue = {}
    /\ projects = {}
    /\ users = [c \in Calls |-> NoDevice]
    /\ templates = {1, 2}
    /\ versions = {<<1, 1, 8>>, <<2, 1, 7>>}
    /\ nextSubId = 1 /\ nextObjId = 1
    /\ pc = [c \in Calls |-> "idle"]
    /\ req = [c \in Calls |-> [deviceId |-> NoDevice, n |-> 0]]
    /\ submissions = [c \in Calls |-> <<>>]
    /\ results = [c \in Calls |-> <<>>]
    /\ syncedCount = [c \in Calls |-> 0]
    /\ errorCount = [c \in Calls |-> 0]
    /\ resp = [c \in Calls |-> "none"]
    /\ tx = [c \in Calls |-> EmptyTx]
    /\ error = [c \in Calls |-> "none"]
    /\ dataS3ObjectId = [c \in Calls |-> NoId]
    /\ submissionId = [c \in Calls |-> NoId]
    /\ fileIdx = [c \in Calls |-> 0]
    /\ acquired = [c \in Calls |-> 0]
    /\ released = [c \in Calls |-> 0]
    /\ failures = [c \in Calls |-> {}]
    /\ faults = 0
    /\ upc = [t \in Units |-> "idle"]
    /\ utx = [t \in Units |-> {}]
    /\ uerr = [t \in Units |-> "none"]
    /\ uout = [t \in Units |-> <<"none", "none">>]
    /\ ureleased = [t \in Units |-> 0]
    /\ uhist = [t \in Units |-> [entered |-> FALSE, raised |-> "none",
                                 result |-> "none", commits |-> 0,
                                 rollbacks |-> 0]]
    /\ uploads = [h \in Handles |-> NoUpload]
    /\ nextUpload = 1
    /\ fpc = [r \in FileReqs |-> "idle"]
    /\ freq = [r \in FileReqs |-> NoFileReq]
    /\ fres = [r \in FileReqs |-> NoId]
    /\ furls = [r \in FileReqs |-> <<>>]
    /\ fresp = [r \in FileReqs |-> "none"]
    /\ fcount = 0
    /\ cpc = [r \in Creates |-> "idle"]
    /\ creq = [r \in Creates |-> NoCreate]
    /\ cresp = [r \in Creates |-> "none"]
    /\ spc = [u \in Updates |-> "idle"]
    /\ sreq = [u \in Updates |-> NoUpdate]
    /\ sold = [u \in Updates |-> "none"]
    /\ sresp = [u \in Updates |-> "none"]
    /\ scount = 0
    /\ FormsIdle
    /\ LaterIdle

\* ---------------------------------------------------------------- helpers
\* an awaited call returns (ok) or throws
Outcome(ok) ==
    /\ ok \/ faults < MaxFaults
    /\ faults' = IF ok THEN faults ELSE faults + 1

\* the submissions carried by the requests received so far
RECURSIVE Carried(_)
Carried(n) == IF n = 0 THEN 0 ELSE req[n].n + Carried(n - 1)

\* the submission the loop is at (for (const submission of submissions))
Item(c) == Len(submissions[c])
Cur(c) == submissions[c][Item(c)]

\* objectKey = `submissions/${formTemplateId}/${uuid}.json`
ObjectKey(it) == <<it.formTemplateId, it.uuid>>

\* mutant: the timestamp is set whatever the status
SubmittedAt_Always(status) == "now"

\* submittedAt = submission.status !== 'draft' ? new Date() : null
SubmittedAt(status) == IF status # "draft" THEN "now" ELSE "null"

\* mutant: the lookup leaves drafts out
ExistingSubmission_NoDrafts(uuid) ==
    {s \in subs : s.uuid = uuid /\ s.status # "draft"}

\* SELECT id FROM form_submissions WHERE uuid = ?
ExistingSubmission(uuid) == {s \in subs : s.uuid = uuid}

\* the unique constraints: form_submissions.uuid and
\* s3_objects (bucket, key hash), against the committed rows
UuidTaken(uuid) == \E s \in subs : s.uuid = uuid
KeyTaken(key) == \E o \in objs : o.key = key

\* rows another open transaction holds under the same unique key
ObjLocked(c, key) ==
    \E d \in Calls \ {c} : \E o \in tx[d].objs : o.key = key
SubLocked(c, uuid) ==
    \E d \in Calls \ {c} : \E s \in tx[d].subs : s.uuid = uuid

\* a variant of the loop that skips no attachment
NextFile_NoSkip(files, i) == i

\* index of the next attachment at or after i that carries an s3ObjectId
\* (if (!file.s3ObjectId) continue), or Len + 1
RECURSIVE NextFile(_, _)
NextFile(files, i) ==
    IF i > Len(files) THEN i
    ELSE IF files[i].s3ObjectId # NoId THEN i
    ELSE NextFile(files, i + 1)

\* mutant: results.unshift(...) in place of results.push(...)
Finish_Unshift(c, entry, dSynced, dErrors) ==
    /\ results' = [results EXCEPT ![c] = <<entry>> \o @]
    /\ syncedCount' = [syncedCount EXCEPT ![c] = @ + dSynced]
    /\ errorCount' = [errorCount EXCEPT ![c] = @ + dErrors]
    /\ IF Item(c) < req[c].n
       THEN /\ pc' = [pc EXCEPT ![c] = "fetch"]
            /\ resp' = resp
       ELSE /\ pc' = [pc EXCEPT ![c] = "done"]
            /\ resp' = [resp EXCEPT ![c] = "success"]

\* results.push(...), the counters, and the loop going on to the next
\* submission or to res.status(200).json(...)
Finish(c, entry, dSynced, dErrors) ==
    /\ results' = [results EXCEPT ![c] = Append(@, entry)]
    /\ syncedCount' = [syncedCount EXCEPT ![c] = @ + dSynced]
    /\ errorCount' = [errorCount EXCEPT ![c] = @ + dErrors]
    /\ IF Item(c) < req[c].n
       THEN /\ pc' = [pc EXCEPT ![c] = "fetch"]
            /\ resp' = resp
       ELSE /\ pc' = [pc EXCEPT ![c] = "done"]
            /\ resp' = [resp EXCEPT ![c] = "success"]

\* mutant: no catch around the item, the throw ends the request at line 292
OuterCatch_EndsBatch(c, where, msg) ==
    /\ pc' = [pc EXCEPT ![c] = "done"]
    /\ resp' = [resp EXCEPT ![c] = "error"]
    /\ UNCHANGED <<results, syncedCount, errorCount>>
    /\ failures' = [failures EXCEPT ![c] = @ \cup {<<Item(c), where, msg>>}]

\* the catch of lines 271-281, reached by a throw outside the inner try
\* (where = "pre") or inside its catch block (where = "catch")
OuterCatch(c, where, msg) ==
    /\ Finish(c, [uuid |-> Cur(c).uuid, status |-> "error",
                  message |-> msg, serverId |-> NoId], 0, 1)
    /\ failures' = [failures EXCEPT ![c] = @ \cup {<<Item(c), where, msg>>}]

\* a throw inside the try block of lines 100-234: control passes to the
\* catch of line 235 with the thrown error
Throw(c, msg) ==
    /\ pc' = [pc EXCEPT ![c] = "rollback"]
    /\ error' = [error EXCEPT ![c] = msg]
    /\ failures' = [failures EXCEPT ![c] = @ \cup {<<Item(c), "tx", msg>>}]

\* connection.release() in the finally of line 268, which runs on every
\* exit of the try statement: after the try block ("try"), after the catch
\* block ("catch") and when the catch block itself throws ("catchThrew")
ReleaseConnection(c, exit) ==
    /\ free' = free + 1
    /\ released' = [released EXCEPT ![c] = @ + 1]

\* ------------------------------------------------- syncSubmissions
\* lines 15-33: the request is read; a missing deviceId goes to next(AppError)
\* and an empty batch is answered at once
Receive(c) ==
    /\ pc[c] = "idle"
    /\ \E dev \in {NoDevice, "device"}, n \in 0..MaxBatch :
         /\ n + Carried(NumCalls) <= MaxItems
         /\ req' = [req EXCEPT ![c] = [deviceId |-> dev, n |-> n]]
         /\ IF dev = NoDevice
            THEN /\ pc' = [pc EXCEPT ![c] = "done"]
                 /\ resp' = [resp EXCEPT ![c] = "error"]
            ELSE IF n = 0
            THEN /\ pc' = [pc EXCEPT ![c] = "done"]
                 /\ resp' = [resp EXCEPT ![c] = "success"]
            ELSE /\ pc' = [pc EXCEPT ![c] = "update"]
                 /\ resp' = resp
    /\ UNCHANGED <<free, faults, blobs, tables, users, catalog, counters,
                   submissions, results, syncedCount, errorCount, tx, locals,
                   poolHist, failures, restVars>>

\* lines 36-39: UPDATE users SET device_id = ?, last_sync_at = NOW();
\* db.query borrows a pooled connection for the statement; a throw is caught
\* at line 292
UpdateUser(c) ==
    /\ pc[c] = "update"
    /\ free > 0
    /\ \E ok \in BOOLEAN : Outcome(ok) /\
         IF ok
         THEN /\ users' = [users EXCEPT ![c] = req[c].deviceId]
              /\ pc' = [pc EXCEPT ![c] = "fetch"]
              /\ resp' = resp
         ELSE /\ users' = users
              /\ pc' = [pc EXCEPT ![c] = "done"]
              /\ resp' = [resp EXCEPT ![c] = "error"]
    /\ UNCHANGED <<free, blobs, tables, catalog, counters, req, submissions,
                   results, syncedCount, errorCount, tx, locals, poolHist,
                   failures, restVars>>

\* line 46: the loop takes the next submission of the request body
FetchFrom(c, sent) ==
    /\ pc[c] = "fetch"
    /\ \E it \in sent :
         submissions' = [submissions EXCEPT ![c] = Append(@, it)]
    /\ pc' = [pc EXCEPT ![c] = "dupcheck"]
    /\ UNCHANGED <<free, faults, blobs, tables, users, catalog, counters, req,
                   outs, tx, locals, poolHist, failures, restVars>>

Fetch(c) == FetchFrom(c, Items)

\* an item that carries the status 'verified', which line 12 of
\* syncValidation.js admits
VerifiedItem ==
    [uuid |-> "a1", formTemplateId |-> 1, formTemplateVersion |-> 1,
     data |-> "d1", status |-> "verified", files |-> <<>>]

FetchVerified(c) == FetchFrom(c, {VerifiedItem})

\* lines 54-63: the item is reported 'skipped' with the id of the row found
Skip_Counted(c, found) ==
    /\ Finish(c, [uuid |-> Cur(c).uuid, status |-> "skipped",
                  message |-> "Submission with this UUID already exists",
                  serverId |-> (CHOOSE s \in found : TRUE).id], 0, 1)
    /\ failures' = failures

\* lines 54-63: the item is reported 'skipped' and counted in neither counter
Skip(c, found) ==
    /\ Finish(c, [uuid |-> Cur(c).uuid, status |-> "skipped",
                  message |-> "Submission with this UUID already exists",
                  serverId |-> (CHOOSE s \in found : TRUE).id], 0, 0)
    /\ failures' = failures

\* lines 48-63: the duplicate check
DupCheck(c) ==
    /\ pc[c] = "dupcheck"
    /\ free > 0
    /\ \E ok \in BOOLEAN : Outcome(ok) /\
         IF ~ok
         THEN OuterCatch(c, "pre", "query failed")
         ELSE IF ExistingSubmission(Cur(c).uuid) # {}
         THEN Skip(c, ExistingSubmission(Cur(c).uuid))
         ELSE /\ pc' = [pc EXCEPT ![c] = "tplcheck"]
              /\ UNCHANGED <<outs, failures>>
    /\ UNCHANGED <<free, blobs, tables, users, catalog, counters, req,
                   submissions, tx, locals, poolHist, restVars>>

\* lines 65-79: the form template must exist
TemplateCheck(c) ==
    /\ pc[c] = "tplcheck"
    /\ free > 0
    /\ \E ok \in BOOLEAN : Outcome(ok) /\
         IF ~ok
         THEN OuterCatch(c, "pre", "query failed")
         ELSE IF Cur(c).formTemplateId \notin templates
         THEN /\ Finish(c, [uuid |-> Cur(c).uuid, status |-> "error",
                            message |-> "Form template not found",
                            serverId |-> NoId], 0, 1)
              /\ failures' = failures
         ELSE /\ pc' = [pc EXCEPT ![c] = "vercheck"]
              /\ UNCHANGED <<outs, failures>>
    /\ UNCHANGED <<free, blobs, tables, users, catalog, counters, req,
                   submissions, tx, locals, poolHist, restVars>>

\* mutant: the version is not looked up
VersionCheck_Unchecked(c) ==
    /\ pc[c] = "vercheck"
    /\ pc' = [pc EXCEPT ![c] = "getconn"]
    /\ UNCHANGED <<free, faults, blobs, tables, users, catalog, counters, req,
                   submissions, outs, failures, tx, locals, poolHist, restVars>>

\* lines 81-95: the (template, version) pair must exist
VersionCheck(c) ==
    /\ pc[c] = "vercheck"
    /\ free > 0
    /\ \E ok \in BOOLEAN : Outcome(ok) /\
         IF ~ok
         THEN OuterCatch(c, "pre", "query failed")
         ELSE IF <<Cur(c).formTemplateId, Cur(c).formTemplateVersion>> \notin VersionPairs
         THEN /\ Finish(c, [uuid |-> Cur(c).uuid, status |-> "error",
                            message |-> "Form template version not found",
                            serverId |-> NoId], 0, 1)
              /\ failures' = failures
         ELSE /\ pc' = [pc EXCEPT ![c] = "getconn"]
              /\ UNCHANGED <<outs, failures>>
    /\ UNCHANGED <<free, blobs, tables, users, catalog, counters, req,
                   submissions, tx, locals, poolHist, restVars>>

\* line 98: db.getConnection() reserves a pooled connection, waiting while
\* none is free; a throw is caught at line 271
GetConnection(c) ==
    /\ pc[c] = "getconn"
    /\ free > 0
    /\ \E ok \in BOOLEAN : Outcome(ok) /\
         IF ok
         THEN /\ free' = free - 1
              /\ acquired' = [acquired EXCEPT ![c] = @ + 1]
              /\ pc' = [pc EXCEPT ![c] = "begin"]
              /\ UNCHANGED <<outs, failures>>
         ELSE /\ OuterCatch(c, "pre", "getConnection failed")
              /\ UNCHANGED <<free, acquired>>
    /\ UNCHANGED <<blobs, tables, users, catalog, counters, req, submissions,
                   tx, locals, released, restVars>>

\* line 101: connection.beginTransaction()
Begin(c) ==
    /\ pc[c] = "begin"
    /\ \E ok \in BOOLEAN : Outcome(ok) /\
         IF ok
         THEN /\ pc' = [pc EXCEPT ![c] = "put"]
              /\ UNCHANGED <<error, failures>>
         ELSE Throw(c, "begin failed")
    /\ UNCHANGED <<free, blobs, tables, users, catalog, counters, req,
                   submissions, outs, tx, dataS3ObjectId, submissionId,
                   fileIdx, poolHist, restVars>>

\* lines 103-111 and s3Service.putObject: the payload is written to the
\* object store under objectKey, replacing whatever the key held
PutObject(c) ==
    /\ pc[c] = "put"
    /\ \E ok \in BOOLEAN : Outcome(ok) /\
         IF ok
         THEN /\ blobs' = [blobs EXCEPT ![ObjectKey(Cur(c))] = Cur(c).data]
              /\ pc' = [pc EXCEPT ![c] = "insobj"]
              /\ UNCHANGED <<error, failures>>
         ELSE /\ Throw(c, "Failed to upload object to S3")
              /\ blobs' = blobs
    /\ UNCHANGED <<free, tables, users, catalog, counters, req, submissions,
                   outs, tx, dataS3ObjectId, submissionId, fileIdx, poolHist,
                   restVars>>

\* lines 114-127: a plain INSERT INTO s3_objects; a key that is taken makes
\* the statement throw
ObjectDuplicate(c) ==
    /\ Throw(c, "Duplicate entry for s3_objects key")
    /\ UNCHANGED <<tx, nextObjId, dataS3ObjectId>>

\* lines 113-129: INSERT INTO s3_objects, unique on (bucket, key hash)
InsertObject(c) ==
    /\ pc[c] = "insobj"
    /\ \E ok \in BOOLEAN : Outcome(ok) /\
         IF ~ok
         THEN /\ Throw(c, "insert s3_objects failed")
              /\ UNCHANGED <<tx, nextObjId, dataS3ObjectId>>
         ELSE /\ ~ObjLocked(c, ObjectKey(Cur(c)))
              /\ IF KeyTaken(ObjectKey(Cur(c)))
                 THEN ObjectDuplicate(c)
                 ELSE /\ tx' = [tx EXCEPT ![c].objs =
                                  @ \cup {[id |-> nextObjId,
                                           key |-> ObjectKey(Cur(c)),
                                           src |-> <<c, Item(c)>>]}]
                      /\ nextObjId' = nextObjId + 1
                      /\ dataS3ObjectId' = [dataS3ObjectId EXCEPT ![c] = nextObjId]
                      /\ pc' = [pc EXCEPT ![c] = "inssub"]
                      /\ UNCHANGED <<error, failures>>
    /\ UNCHANGED <<free, blobs, tables, users, catalog, nextSubId, req,
                   submissions, outs, submissionId, fileIdx, poolHist,
                   restVars>>

\* mutant: INSERT IGNORE, the statement returns without a row and without
\* an insertId
SubmissionDuplicate_Ignored(c) ==
    /\ submissionId' = [submissionId EXCEPT ![c] = NoId]
    /\ fileIdx' = [fileIdx EXCEPT ![c] = NextFile(Cur(c).files, 1)]
    /\ pc' = [pc EXCEPT ![c] =
                IF NextFile(Cur(c).files, 1) <= Len(Cur(c).files)
                THEN "insfile" ELSE "inslog"]
    /\ UNCHANGED <<tx, nextSubId, error, failures>>

\* lines 135-155: a plain INSERT INTO form_submissions; a uuid that is taken
\* makes the statement throw
SubmissionDuplicate(c) ==
    /\ Throw(c, "Duplicate entry for form_submissions uuid")
    /\ UNCHANGED <<tx, nextSubId, submissionId, fileIdx>>

\* lines 131-157: INSERT INTO form_submissions, unique on uuid
InsertSubmission(c) ==
    /\ pc[c] = "inssub"
    /\ \E ok \in BOOLEAN : Outcome(ok) /\
         IF ~ok
         THEN /\ Throw(c, "insert form_submissions failed")
              /\ UNCHANGED <<tx, nextSubId, submissionId, fileIdx>>
         ELSE /\ ~SubLocked(c, Cur(c).uuid)
              /\ IF UuidTaken(Cur(c).uuid)
                 THEN SubmissionDuplicate(c)
                 ELSE /\ tx' = [tx EXCEPT ![c].subs =
                                  @ \cup {[id |-> nextSubId,
                                           uuid |-> Cur(c).uuid,
                                           formTemplateId |-> Cur(c).formTemplateId,
                                           formTemplateVersion |-> Cur(c).formTemplateVersion,
                                           submittedBy |-> c,
                                           status |-> Cur(c).status,
                                           submittedAt |-> SubmittedAt(Cur(c).status),
                                           verifiedBy |-> NoId,
                                           verifiedAt |-> "null",
                                           dataS3ObjectId |-> dataS3ObjectId[c],
                                           src |-> <<c, Item(c)>>]}]
                      /\ nextSubId' = nextSubId + 1
                      /\ submissionId' = [submissionId EXCEPT ![c] = nextSubId]
                      /\ fileIdx' = [fileIdx EXCEPT ![c] = NextFile(Cur(c).files, 1)]
                      /\ pc' = [pc EXCEPT ![c] =
                                  IF NextFile(Cur(c).files, 1) <= Len(Cur(c).files)
                                  THEN "insfile" ELSE "inslog"]
                      /\ UNCHANGED <<error, failures>>
    /\ UNCHANGED <<free, blobs, tables, users, catalog, nextObjId, req,
                   submissions, outs, dataS3ObjectId, poolHist, restVars>>

\* lines 159-181: one INSERT INTO form_submission_files per attachment that
\* carries an s3ObjectId
InsertFile(c) ==
    /\ pc[c] = "insfile"
    /\ \E ok \in BOOLEAN : Outcome(ok) /\
         IF ~ok
         THEN /\ Throw(c, "insert form_submission_files failed")
              /\ UNCHANGED <<tx, fileIdx>>
         ELSE /\ tx' = [tx EXCEPT ![c].atts =
                          @ \cup {[submission |-> submissionId[c],
                                   pos |-> fileIdx[c],
                                   fieldName |-> Cur(c).files[fileIdx[c]].fieldName,
                                   s3ObjectId |-> Cur(c).files[fileIdx[c]].s3ObjectId,
                                   src |-> <<c, Item(c)>>]}]
              /\ fileIdx' = [fileIdx EXCEPT ![c] = NextFile(Cur(c).files, @ + 1)]
              /\ pc' = [pc EXCEPT ![c] =
                          IF NextFile(Cur(c).files, fileIdx[c] + 1) <= Len(Cur(c).files)
                          THEN "insfile" ELSE "inslog"]
              /\ UNCHANGED <<error, failures>>
    /\ UNCHANGED <<free, blobs, tables, users, catalog, counters, req,
                   submissions, outs, dataS3ObjectId, submissionId, poolHist,
                   restVars>>

\* lines 183-201: INSERT INTO activity_logs
InsertLog(c) ==
    /\ pc[c] = "inslog"
    /\ \E ok \in BOOLEAN : Outcome(ok) /\
         IF ~ok
         THEN /\ Throw(c, "insert activity_logs failed")
              /\ tx' = tx
         ELSE /\ tx' = [tx EXCEPT ![c].logs =
                          @ \cup {[user |-> c,
                                   activity |-> "sync_submission",
                                   entity |-> submissionId[c],
                                   uuid |-> Cur(c).uuid,
                                   src |-> <<c, Item(c)>>]}]
              /\ pc' = [pc EXCEPT ![c] = "insqueue"]
              /\ UNCHANGED <<error, failures>>
    /\ UNCHANGED <<free, blobs, tables, users, catalog, counters, req,
                   submissions, outs, dataS3ObjectId, submissionId, fileIdx,
                   poolHist, restVars>>

\* a variant that leaves server_id out of the entry
InsertQueue_NoServerId(c) ==
    /\ pc[c] = "insqueue"
    /\ \E ok \in BOOLEAN : Outcome(ok) /\
         IF ~ok
         THEN /\ Throw(c, "insert sync_queue failed")
              /\ tx' = tx
         ELSE /\ tx' = [tx EXCEPT ![c].queue =
                          @ \cup {[user |-> c,
                                   device |-> req[c].deviceId,
                                   uuid |-> Cur(c).uuid,
                                   status |-> "completed",
                                   serverId |-> NoId,
                                   message |-> "none",
                                   src |-> <<c, Item(c)>>]}]
              /\ pc' = [pc EXCEPT ![c] = "commit"]
              /\ UNCHANGED <<error, failures>>
    /\ UNCHANGED <<free, blobs, tables, users, catalog, counters, req,
                   submissions, outs, dataS3ObjectId, submissionId, fileIdx,
                   poolHist, restVars>>

\* lines 203-222: INSERT INTO sync_queue ... 'completed'
InsertQueue(c) ==
    /\ pc[c] = "insqueue"
    /\ \E ok \in BOOLEAN : Outcome(ok) /\
         IF ~ok
         THEN /\ Throw(c, "insert sync_queue failed")
              /\ tx' = tx
         ELSE /\ tx' = [tx EXCEPT ![c].queue =
                          @ \cup {[user |-> c,
                                   device |-> req[c].deviceId,
                                   uuid |-> Cur(c).uuid,
                                   status |-> "completed",
                                   serverId |-> submissionId[c],
                                   message |-> "none",
                                   src |-> <<c, Item(c)>>]}]
              /\ pc' = [pc EXCEPT ![c] = "commit"]
              /\ UNCHANGED <<error, failures>>
    /\ UNCHANGED <<free, blobs, tables, users, catalog, counters, req,
                   submissions, outs, dataS3ObjectId, submissionId, fileIdx,
                   poolHist, restVars>>

\* lines 224-234 and the finally of 268-270: commit, the 'success' result,
\* release
Commit(c) ==
    /\ pc[c] = "commit"
    /\ \E ok \in BOOLEAN : Outcome(ok) /\
         IF ~ok
         THEN /\ Throw(c, "commit failed")
              /\ UNCHANGED <<tables, tx, outs, free, released>>
         ELSE /\ subs' = subs \cup tx[c].subs
              /\ objs' = objs \cup tx[c].objs
              /\ atts' = atts \cup tx[c].atts
              /\ logs' = logs \cup tx[c].logs
              /\ queue' = queue \cup tx[c].queue
              /\ tx' = [tx EXCEPT ![c] = EmptyTx]
              /\ Finish(c, [uuid |-> Cur(c).uuid, status |-> "success",
                            message |-> "Submission synced successfully",
                            serverId |-> submissionId[c]], 1, 0)
              /\ ReleaseConnection(c, "try")
              /\ UNCHANGED <<error, failures>>
    /\ UNCHANGED <<blobs, users, catalog, counters, req, submissions,
                   dataS3ObjectId, submissionId, fileIdx, acquired, restVars>>

\* a variant of the rollback that leaves the form_submissions row behind
Rollback_KeepsSubmission(c) ==
    /\ pc[c] = "rollback"
    /\ tx' = [tx EXCEPT ![c] = EmptyTx]
    /\ subs' = subs \cup tx[c].subs
    /\ \E ok \in BOOLEAN : Outcome(ok) /\
         IF ok
         THEN /\ pc' = [pc EXCEPT ![c] = "insfailed"]
              /\ UNCHANGED <<outs, free, released, failures>>
         ELSE /\ OuterCatch(c, "catch", "rollback failed")
              /\ ReleaseConnection(c, "catchThrew")
    /\ UNCHANGED <<blobs, objs, atts, logs, queue, users, catalog, counters,
                   req, submissions, locals, acquired, restVars>>

\* line 236: connection.rollback(); when it throws, the finally releases the
\* connection and the catch of line 271 reports the rollback's error
Rollback(c) ==
    /\ pc[c] = "rollback"
    /\ tx' = [tx EXCEPT ![c] = EmptyTx]
    /\ \E ok \in BOOLEAN : Outcome(ok) /\
         IF ok
         THEN /\ pc' = [pc EXCEPT ![c] = "insfailed"]
              /\ UNCHANGED <<outs, free, released, failures>>
         ELSE /\ OuterCatch(c, "catch", "rollback failed")
              /\ ReleaseConnection(c, "catchThrew")
    /\ UNCHANGED <<blobs, tables, users, catalog, counters, req, submissions,
                   locals, acquired, restVars>>

\* a variant of QueueInsert that keeps one entry per (user, device, clientId)
QueueInsert_Upsert(row) ==
    {q \in queue : <<q.user, q.device, q.uuid>> # <<row.user, row.device, row.uuid>>}
        \cup {row}

\* lines 242-258: a plain INSERT, the table keeps every earlier entry
QueueInsert(row) == queue \cup {row}

\* lines 241-270: the 'failed' sync_queue row is written through db.query,
\* that is on another pooled connection, while the transaction's connection
\* is still reserved; then the 'error' result and the release
InsertFailed(c) ==
    /\ pc[c] = "insfailed"
    /\ free > 0
    /\ \E ok \in BOOLEAN : Outcome(ok) /\
         IF ok
         THEN /\ queue' = QueueInsert([user |-> c,
                                       device |-> req[c].deviceId,
                                       uuid |-> Cur(c).uuid,
                                       status |-> "failed",
                                       serverId |-> NoId,
                                       message |-> error[c],
                                       src |-> <<c, Item(c)>>])
              /\ Finish(c, [uuid |-> Cur(c).uuid, status |-> "error",
                            message |-> error[c], serverId |-> NoId], 0, 1)
              /\ failures' = failures
              /\ ReleaseConnection(c, "catch")
         ELSE /\ queue' = queue
              /\ OuterCatch(c, "catch", "query failed")
              /\ ReleaseConnection(c, "catchThrew")
    /\ UNCHANGED <<blobs, subs, objs, atts, logs, users, catalog, counters,
                   req, submissions, tx, locals, acquired, restVars>>

SyncStep(c) ==
    \/ Receive(c) \/ UpdateUser(c) \/ Fetch(c) \/ DupCheck(c)
    \/ TemplateCheck(c) \/ VersionCheck(c) \/ GetConnection(c) \/ Begin(c)
    \/ PutObject(c) \/ InsertObject(c) \/ InsertSubmission(c)
    \/ InsertFile(c) \/ InsertLog(c) \/ InsertQueue(c) \/ Commit(c)
    \/ Rollback(c) \/ InsertFailed(c)

\* ------------------------------------------------- executeTransaction
\* a caller such as createProject reserves a connection (db.getConnection())
\* and hands it to executeTransaction with its callback
UnitAcquire(t) ==
    /\ upc[t] = "idle"
    /\ free > 0
    /\ \E ok \in BOOLEAN : Outcome(ok) /\
         IF ok
         THEN /\ free' = free - 1
              /\ upc' = [upc EXCEPT ![t] = "begin"]
              /\ uhist' = [uhist EXCEPT ![t].entered = TRUE]
              /\ uout' = uout
         ELSE /\ free' = free
              /\ upc' = [upc EXCEPT ![t] = "done"]
              /\ uhist' = uhist
              /\ uout' = [uout EXCEPT ![t] = <<"threw", "getConnection failed">>]
    /\ UNCHANGED <<utx, uerr, ureleased, projects, syncVars, fileVars, moreVars>>

\* the catch of lines 17-18 takes the error raised in the try block
UnitCatch(t, msg) ==
    /\ upc' = [upc EXCEPT ![t] = "rollback"]
    /\ uerr' = [uerr EXCEPT ![t] = msg]
    /\ uhist' = [uhist EXCEPT ![t].raised = msg]

\* line 13: await connection.beginTransaction()
UnitBegin(t) ==
    /\ upc[t] = "begin"
    /\ \E ok \in BOOLEAN : Outcome(ok) /\
         IF ok
         THEN /\ upc' = [upc EXCEPT ![t] = "callback"]
              /\ UNCHANGED <<uerr, uhist>>
         ELSE UnitCatch(t, "begin failed")
    /\ UNCHANGED <<free, utx, uout, ureleased, projects, syncVars, fileVars, moreVars>>

\* line 14: const result = await callback(connection); the callback writes
\* rows through the connection and returns its result, or throws after
\* having written some of them
UnitCallback(t) ==
    /\ upc[t] = "callback"
    /\ \E ok \in BOOLEAN : Outcome(ok) /\
         IF ok
         THEN \E r \in UnitResults :
                /\ utx' = [utx EXCEPT ![t] = {[unit |-> t, row |-> 1],
                                             [unit |-> t, row |-> 2]}]
                /\ uhist' = [uhist EXCEPT ![t].result = r]
                /\ upc' = [upc EXCEPT ![t] = "commit"]
                /\ uerr' = uerr
         ELSE \E written \in {0, 1} :
                /\ utx' = [utx EXCEPT ![t] =
                             {[unit |-> t, row |-> i] : i \in 1..written}]
                /\ UnitCatch(t, "callback failed")
    /\ UNCHANGED <<free, uout, ureleased, projects, syncVars, fileVars, moreVars>>

\* mutant: the release follows the rollback inside the catch block in place
\* of a finally, so a catch block that throws skips it
UnitRelease_InCatch(t, exit) ==
    IF exit = "catchThrew"
    THEN UNCHANGED <<free, ureleased>>
    ELSE /\ free' = free + 1
         /\ ureleased' = [ureleased EXCEPT ![t] = @ + 1]

\* connection.release() in the finally of lines 21-23, which runs when the
\* function returns ("try"), when the catch block rethrows ("catch") and
\* when the catch block itself throws ("catchThrew")
UnitRelease(t, exit) ==
    /\ free' = free + 1
    /\ ureleased' = [ureleased EXCEPT ![t] = @ + 1]

\* lines 15-16: await connection.commit(); return result
UnitCommit(t) ==
    /\ upc[t] = "commit"
    /\ \E ok \in BOOLEAN : Outcome(ok) /\
         IF ok
         THEN /\ projects' = projects \cup utx[t]
              /\ utx' = [utx EXCEPT ![t] = {}]
              /\ uout' = [uout EXCEPT ![t] = <<"returned", uhist[t].result>>]
              /\ upc' = [upc EXCEPT ![t] = "done"]
              /\ uerr' = uerr
              /\ uhist' = [uhist EXCEPT ![t].commits = @ + 1]
              /\ UnitRelease(t, "try")
         ELSE /\ UnitCatch(t, "commit failed")
              /\ UNCHANGED <<projects, utx, uout, free, ureleased>>
    /\ UNCHANGED <<syncVars, fileVars, moreVars>>

\* lines 19-20: await connection.rollback(); throw error.  When rollback
\* throws, its error leaves the catch block in place of the caught one
UnitRollback(t) ==
    /\ upc[t] = "rollback"
    /\ utx' = [utx EXCEPT ![t] = {}]
    /\ upc' = [upc EXCEPT ![t] = "done"]
    /\ uhist' = [uhist EXCEPT ![t].rollbacks = @ + 1]
    /\ \E ok \in BOOLEAN : Outcome(ok) /\
         IF ok
         THEN /\ uout' = [uout EXCEPT ![t] = <<"threw", uerr[t]>>]
              /\ UnitRelease(t, "catch")
         ELSE /\ uout' = [uout EXCEPT ![t] = <<"threw", "rollback failed">>]
              /\ UnitRelease(t, "catchThrew")
    /\ UNCHANGED <<uerr, projects, syncVars, fileVars, moreVars>>

UnitStep(t) ==
    \/ UnitAcquire(t) \/ UnitBegin(t) \/ UnitCallback(t) \/ UnitCommit(t)
    \/ UnitRollback(t)

\* ------------------------------------------------- nested executeTransaction
\* the callback of line 14 has written a row through the connection and
\* calls executeTransaction(connection, inner) itself
NestedEnter(t) ==
    /\ upc[t] = "callback"
    /\ ~nest[t].called
    /\ nest' = [nest EXCEPT ![t].called = TRUE]
    /\ utx' = [utx EXCEPT ![t] = {[unit |-> t, row |-> 0]}]
    /\ upc' = [upc EXCEPT ![t] = "n_begin"]
    /\ UNCHANGED <<free, faults, uerr, uout, ureleased, uhist, projects,
                   syncVars, fileVars, createVars, statusVars, formVars,
                   queryVars, keyVars>>

\* the inner call's catch of lines 17-18
NestedCatch(t, msg) ==
    /\ upc' = [upc EXCEPT ![t] = "n_rollback"]
    /\ uerr' = [uerr EXCEPT ![t] = msg]

\* line 13 of the inner call: beginTransaction() on a connection with an
\* open transaction; no line of executeTransaction looks whether one is
\* open, and START TRANSACTION commits the open one before it begins
NestedBegin(t) ==
    /\ upc[t] = "n_begin"
    /\ \E ok \in BOOLEAN : Outcome(ok) /\
         IF ok
         THEN /\ projects' = projects \cup utx[t]
              /\ utx' = [utx EXCEPT ![t] = {}]
              /\ nest' = [nest EXCEPT ![t].begins = @ + 1,
                                      ![t].outerEnded = @ + 1]
              /\ upc' = [upc EXCEPT ![t] = "n_callback"]
              /\ uerr' = uerr
         ELSE /\ NestedCatch(t, "begin failed")
              /\ UNCHANGED <<projects, utx, nest>>
    /\ UNCHANGED <<free, uout, ureleased, uhist, syncVars, fileVars,
                   createVars, statusVars, formVars, queryVars, keyVars>>

\* line 14 of the inner call: the inner callback writes a row
NestedCallback(t) ==
    /\ upc[t] = "n_callback"
    /\ \E ok \in BOOLEAN : Outcome(ok) /\
         IF ok
         THEN /\ utx' = [utx EXCEPT ![t] = @ \cup {[unit |-> t, row |-> 3]}]
              /\ upc' = [upc EXCEPT ![t] = "n_commit"]
              /\ uerr' = uerr
         ELSE /\ utx' = utx
              /\ NestedCatch(t, "callback failed")
    /\ UNCHANGED <<free, uout, ureleased, uhist, projects, nest, syncVars,
                   fileVars, createVars, statusVars, formVars, queryVars, keyVars>>

\* lines 15-16 and 21-23 of the inner call: commit, return to the outer
\* callback, and the inner finally releases the connection the outer call
\* works on
NestedCommit(t) ==
    /\ upc[t] = "n_commit"
    /\ \E ok \in BOOLEAN : Outcome(ok) /\
         IF ok
         THEN /\ projects' = projects \cup utx[t]
              /\ utx' = [utx EXCEPT ![t] = {}]
              /\ upc' = [upc EXCEPT ![t] = "callback"]
              /\ nest' = [nest EXCEPT ![t].releases = @ + 1]
              /\ uerr' = uerr
              /\ UnitRelease(t, "try")
         ELSE /\ NestedCatch(t, "commit failed")
              /\ UNCHANGED <<projects, utx, nest, free, ureleased>>
    /\ UNCHANGED <<uout, uhist, syncVars, fileVars, createVars, statusVars,
                   formVars, queryVars, keyVars>>

\* lines 19-23 of the inner call: rollback, release, and the error is
\* thrown into the outer callback, whose call at line 14 throws
NestedRollback(t) ==
    /\ upc[t] = "n_rollback"
    /\ utx' = [utx EXCEPT ![t] = {}]
    /\ nest' = [nest EXCEPT ![t].releases = @ + 1,
                            ![t].outerEnded =
                               IF nest[t].begins = 0 THEN @ + 1 ELSE @]
    /\ \E ok \in BOOLEAN : Outcome(ok) /\
         IF ok
         THEN /\ UnitCatch(t, uerr[t])
              /\ UnitRelease(t, "catch")
         ELSE /\ UnitCatch(t, "rollback failed")
              /\ UnitRelease(t, "catchThrew")
    /\ UNCHANGED <<uout, projects, syncVars, fileVars, createVars, statusVars,
                   formVars, queryVars, keyVars>>

NestedStep(t) ==
    \/ NestedEnter(t) \/ NestedBegin(t) \/ NestedCallback(t)
    \/ NestedCommit(t) \/ NestedRollback(t)

\* ------------------------------------------------- object key of an upload
\* the bodies a client may post to /files/multipart/initiate, with the
\* authenticated user
KeyBodies ==
    [named : BOOLEAN, submissionUuid : {"none", "u1"}, formTemplateId : 0..2,
     projectId : 0..1, fieldName : {"none", "f"}, user : 1..2]

\* fileValidation.js line 35: .or('projectId', 'formTemplateId',
\* 'submissionUuid'), at least one of the three is in the body
HasContext(q) ==
    q.projectId # 0 \/ q.formTemplateId # 0 \/ q.submissionUuid # "none"

\* fileValidation.js lines 27-35, initiateMultipartSchema: fileName and
\* contentType are required, and so is one of the three contexts
InitiateValid(q) == q.named /\ HasContext(q)

\* fileController.js lines 193-203: the object key, as its namespace and
\* the path segments that follow it
UploadObjectKey(q) ==
    IF q.submissionUuid # "none"
    THEN [ns |-> "submissions",
          segs |-> << IF q.formTemplateId # 0
                      THEN ToString(q.formTemplateId) ELSE "forms",
                      q.submissionUuid,
                      IF q.fieldName # "none" THEN q.fieldName ELSE "files",
                      "file" >>]
    ELSE IF q.formTemplateId # 0
    THEN [ns |-> "forms",
          segs |-> <<ToString(q.formTemplateId), "uploads",
                     ToString(q.user), "file">>]
    ELSE IF q.projectId # 0
    THEN [ns |-> "projects",
          segs |-> <<ToString(q.projectId), "uploads", ToString(q.user),
                     "file">>]
    ELSE [ns |-> "users", segs |-> <<ToString(q.user), "uploads", "file">>]

\* a request arrives at the route
KeyReceive ==
    /\ kpc \in {"idle", "rejected", "keyed"}
    /\ \E q \in KeyBodies : kreq' = q
    /\ kpc' = "validate"
    /\ kkey' = NoKey
    /\ UNCHANGED <<free, faults, syncVars, unitVars, fileVars, createVars,
                   statusVars, formVars, queryVars, nest>>

\* part_006 lines 116-120 and validationMiddleware.js lines 13-25:
\* validateRequest(initiateMultipartSchema) answers 400 or calls the handler
KeyValidate ==
    /\ kpc = "validate"
    /\ kpc' = IF InitiateValid(kreq) THEN "handler" ELSE "rejected"
    /\ UNCHANGED <<kreq, kkey, free, faults, syncVars, unitVars, fileVars,
                   createVars, statusVars, formVars, queryVars, nest>>

\* fileController.js lines 183-203: the handler's own check of fileName and
\* contentType, then the key
KeyDerive ==
    /\ kpc = "handler"
    /\ IF ~kreq.named
       THEN kpc' = "rejected" /\ kkey' = kkey
       ELSE kpc' = "keyed" /\ kkey' = UploadObjectKey(kreq)
    /\ UNCHANGED <<kreq, free, faults, syncVars, unitVars, fileVars,
                   createVars, statusVars, formVars, queryVars, nest>>

\* ------------------------------------------------- multipart upload
\* the object key of an upload: a file name salted with random bytes
\* (fileController.js lines 188-203), so no two uploads share a key
UploadKey(h) == <<-h, "upload">>

\* contentType and fileSize of a request body, taken together
Metas == {"m1", "m2"}

\* the object keys a client may name in completeFileUpload: those of the
\* multipart uploads and those syncSubmissions derives
RegisterKeys == {UploadKey(h) : h \in Handles} \cup Keys

\* HeadObject: an object is stored under the key
ObjectStored(key) ==
    IF key \in Keys THEN blobs[key] # NoBlob
    ELSE \E h \in Handles : key = UploadKey(h) /\ uploads[h].state = "completed"

\* a variant of the upsert that leaves the existing row as it is
Upserted_Stale(key, meta) == objs

\* ON DUPLICATE KEY UPDATE content_type = VALUES(content_type), size_bytes =
\* VALUES(size_bytes), ...: the row under the key takes the new metadata and
\* keeps its id
Upserted(key, meta) ==
    {IF o.key = key
     THEN [id |-> o.id, key |-> o.key, src |-> o.src, meta |-> meta]
     ELSE o : o \in objs}

\* the ETag the store computed for an uploaded part
ETagOf(i) == IF i = 1 THEN "e1" ELSE IF i = 2 THEN "e2" ELSE "e3"

\* the part lists a client may send with a completion
PartLists ==
    { <<>>,
      << [PartNumber |-> 1, ETag |-> "e1"] >>,
      << [PartNumber |-> 1, ETag |-> "e1"], [PartNumber |-> 2, ETag |-> "e2"] >>,
      << [PartNumber |-> 1, ETag |-> "bad"] >> }

\* CompleteMultipartUpload is refused by the store: the upload id is not
\* one of an upload in progress under that key, or a listed part was not
\* uploaded, or its ETag is not the one the store computed
StoreRejects(q) ==
    \/ uploads[q.h].state \in {"none", "aborted"}
    \/ q.key # q.h
    \/ \E i \in 1..Len(q.parts) :
          \/ q.parts[i].PartNumber \notin uploads[q.h].put
          \/ q.parts[i].ETag # ETagOf(q.parts[i].PartNumber)

\* the request ends: res.status(200).json(...) or, from a catch block,
\* next(error)
Respond(r, msg) ==
    /\ fpc' = [fpc EXCEPT ![r] = "done"]
    /\ fresp' = [fresp EXCEPT ![r] = msg]

\* the request bodies a client may send to the four handlers
FileBodies ==
    {[kind |-> "initiate", h |-> 1, key |-> 1, parts |-> <<>>,
      named |-> named, n |-> n, objectKey |-> UploadKey(1), meta |-> "m1"] :
        named \in BOOLEAN, n \in 1..MaxParts}
    \cup
    {[kind |-> "complete", h |-> h, key |-> key, parts |-> parts,
      named |-> TRUE, n |-> 1, objectKey |-> UploadKey(key), meta |-> meta] :
        h \in Handles, key \in Handles, parts \in PartLists, meta \in Metas}
    \cup
    {[kind |-> "abort", h |-> h, key |-> key, parts |-> <<>>,
      named |-> TRUE, n |-> 1, objectKey |-> UploadKey(key), meta |-> "m1"] :
        h \in Handles, key \in Handles}
    \cup
    {[kind |-> "register", h |-> 1, key |-> 1, parts |-> <<>>,
      named |-> named, n |-> 1, objectKey |-> k, meta |-> meta] :
        named \in BOOLEAN, k \in RegisterKeys, meta \in Metas}

\* the request body is read (lines 92-96, 173-185, 253-257, 339-343); a body
\* without the required fields is answered with AppError 400
FileReceive(r) ==
    /\ fpc[r] \in {"idle", "done"}
    /\ fcount < MaxFileReqs
    /\ fcount' = fcount + 1
    /\ fres' = [fres EXCEPT ![r] = NoId]
    /\ \E q \in FileBodies :
         /\ q.kind = "initiate" =>
               nextUpload + Cardinality({x \in FileReqs : fpc[x] = "initiate"})
                   <= NumUploads
         /\ freq' = [freq EXCEPT ![r] = q]
         /\ IF q.kind = "initiate" /\ ~q.named
            THEN Respond(r, "File name and content type are required")
            ELSE IF q.kind = "register" /\ ~q.named
            THEN Respond(r, "Bucket and object key are required")
            ELSE IF q.kind = "complete" /\ q.parts = <<>>
            THEN Respond(r, "Missing required parameters")
            ELSE /\ fpc' = [fpc EXCEPT ![r] =
                              IF q.kind = "register" THEN "exists" ELSE q.kind]
                 /\ fresp' = [fresp EXCEPT ![r] = "none"]
    /\ UNCHANGED <<free, faults, uploads, nextUpload, syncVars, unitVars, moreVars>>
    /\ furls' = [furls EXCEPT ![r] = <<>>]

\* lines 205-210: await s3Service.initiateMultipartUpload(...)
InitiateUpload(r) ==
    /\ fpc[r] = "initiate"
    /\ \E ok \in BOOLEAN : Outcome(ok) /\
         IF ok
         THEN /\ uploads' = [uploads EXCEPT ![nextUpload].state = "initiated"]
              /\ nextUpload' = nextUpload + 1
              /\ freq' = [freq EXCEPT ![r].h = nextUpload,
                                      ![r].key = nextUpload]
              /\ fres' = [fres EXCEPT ![r] = 0]
              /\ fpc' = [fpc EXCEPT ![r] = "sign"]
              /\ fresp' = fresp
         ELSE /\ Respond(r, "Failed to initiate multipart upload")
              /\ UNCHANGED <<uploads, nextUpload, freq, fres>>
    /\ UNCHANGED <<free, fcount, syncVars, unitVars, moreVars>>
    /\ UNCHANGED furls

\* a variant that numbers the parts from 0
PartUrl_FromZero(key, uploadId, i) ==
    [partNumber |-> i - 1, key |-> key, uploadId |-> uploadId]

\* lines 216-226: the URL getPresignedPartUploadUrl signs for part i of the
\* upload, pushed with its part number
PartUrl(key, uploadId, i) ==
    [partNumber |-> i, key |-> key, uploadId |-> uploadId]

\* lines 215-238: one presigned URL per part, then the response
IssuePartUrl(r) ==
    /\ fpc[r] = "sign"
    /\ \E ok \in BOOLEAN : Outcome(ok) /\
         IF ok
         THEN /\ uploads' = [uploads EXCEPT ![freq[r].h].issued = fres[r] + 1]
              /\ fres' = [fres EXCEPT ![r] = @ + 1]
              /\ furls' = [furls EXCEPT ![r] =
                    Append(@, PartUrl(UploadKey(freq[r].key), freq[r].h,
                                      fres[r] + 1))]
              /\ IF fres[r] + 1 = freq[r].n
                 THEN Respond(r, "success")
                 ELSE UNCHANGED <<fpc, fresp>>
         ELSE /\ Respond(r, "Failed to generate part upload URL")
              /\ UNCHANGED <<uploads, fres, furls>>
    /\ UNCHANGED <<free, nextUpload, freq, fcount, syncVars, unitVars, moreVars>>

\* the client puts a part to one of the presigned URLs it was given
PutPart(h) ==
    /\ uploads[h].state = "initiated"
    /\ \E i \in 1..uploads[h].issued :
         /\ i \notin uploads[h].put
         /\ uploads' = [uploads EXCEPT ![h].put = @ \cup {i}]
    /\ UNCHANGED <<free, faults, nextUpload, fpc, freq, fres, fresp, fcount,
                   syncVars, unitVars, moreVars>>
    /\ UNCHANGED furls

\* mutant: the refusal is logged and not rethrown, the handler goes on
CompleteRejected_Swallowed(r) ==
    /\ fpc' = [fpc EXCEPT ![r] = "insert"]
    /\ UNCHANGED <<fresp, uploads>>

\* s3Config.js lines 235-238 and fileController.js lines 325-328: the
\* store's refusal is rethrown as AppError and ends the request
CompleteRejected(r) ==
    /\ Respond(r, "Failed to complete multipart upload")
    /\ UNCHANGED uploads

\* lines 259-265: await s3Service.completeMultipartUpload(...).  A repeated
\* completion of a completed upload is answered by the store either way.
StoreComplete(r) ==
    /\ fpc[r] = "complete"
    /\ \E ok \in BOOLEAN : Outcome(ok) /\
         IF ~ok \/ StoreRejects(freq[r])
         THEN CompleteRejected(r)
         ELSE \/ /\ uploads' = [uploads EXCEPT ![freq[r].h].state = "completed"]
                 /\ fpc' = [fpc EXCEPT ![r] = "insert"]
                 /\ fresp' = fresp
              \/ /\ uploads[freq[r].h].state = "completed"
                 /\ CompleteRejected(r)
    /\ UNCHANGED <<free, nextUpload, freq, fres, fcount, syncVars, unitVars, moreVars>>
    /\ UNCHANGED furls

\* lines 267-297: INSERT INTO s3_objects ... ON DUPLICATE KEY UPDATE through
\* db.query; insertId is that of the new row, and for an existing row the
\* row's id or 0 as the server reports it
InsertRecord(r) ==
    /\ fpc[r] = "insert"
    /\ free > 0
    /\ \E ok \in BOOLEAN : Outcome(ok) /\
         IF ~ok
         THEN /\ Respond(r, "query failed")
              /\ UNCHANGED <<objs, nextObjId, fres>>
         ELSE /\ ~ObjLocked(0, UploadKey(freq[r].key))
              /\ IF KeyTaken(UploadKey(freq[r].key))
                 THEN /\ objs' = Upserted(UploadKey(freq[r].key), freq[r].meta)
                      /\ nextObjId' = nextObjId
                      /\ \E id \in {NoId} \cup
                             {o.id : o \in {x \in objs :
                                              x.key = UploadKey(freq[r].key)}} :
                           /\ fres' = [fres EXCEPT ![r] = id]
                           /\ fpc' = [fpc EXCEPT ![r] =
                                        IF id = NoId THEN "select" ELSE "url"]
                 ELSE /\ objs' = objs \cup {[id |-> nextObjId,
                                             key |-> UploadKey(freq[r].key),
                                             src |-> <<0, freq[r].h>>,
                                             meta |-> freq[r].meta]}
                      /\ nextObjId' = nextObjId + 1
                      /\ fres' = [fres EXCEPT ![r] = nextObjId]
                      /\ fpc' = [fpc EXCEPT ![r] = "url"]
              /\ fresp' = fresp
    /\ UNCHANGED <<free, blobs, subs, atts, logs, queue, users, catalog,
                   nextSubId, pc, req, submissions, outs, tx, locals,
                   poolHist, failures, uploads, nextUpload, freq, fcount,
                   unitVars, moreVars>>
    /\ UNCHANGED furls

\* lines 298-309: the id of the existing row is read back
SelectRecord(r) ==
    /\ fpc[r] = "select"
    /\ free > 0
    /\ \E ok \in BOOLEAN : Outcome(ok) /\
         IF ~ok
         THEN /\ Respond(r, "query failed")
              /\ fres' = fres
         ELSE IF ~KeyTaken(UploadKey(freq[r].key))
         THEN /\ Respond(r, "Failed to retrieve S3 object record")
              /\ fres' = fres
         ELSE /\ \E o \in objs :
                   /\ o.key = UploadKey(freq[r].key)
                   /\ fres' = [fres EXCEPT ![r] = o.id]
              /\ fpc' = [fpc EXCEPT ![r] = "url"]
              /\ fresp' = fresp
    /\ UNCHANGED <<free, uploads, nextUpload, freq, fcount, syncVars, unitVars, moreVars>>
    /\ UNCHANGED furls

\* lines 311-324: the download URL is signed and the response is sent
SignDownload(r) ==
    /\ fpc[r] = "url"
    /\ \E ok \in BOOLEAN : Outcome(ok) /\
         IF ok
         THEN Respond(r, "success")
         ELSE Respond(r, "Failed to generate download URL")
    /\ UNCHANGED <<free, uploads, nextUpload, freq, fres, fcount, syncVars,
                   unitVars, moreVars>>
    /\ UNCHANGED furls

\* lines 345-350: await s3Service.abortMultipartUpload(...); the store
\* refuses an upload id that is not in progress under that key
StoreAbort(r) ==
    /\ fpc[r] = "abort"
    /\ \E ok \in BOOLEAN : Outcome(ok) /\
         IF ok /\ uploads[freq[r].h].state = "initiated" /\ freq[r].key = freq[r].h
         THEN /\ uploads' = [uploads EXCEPT ![freq[r].h].state = "aborted"]
              /\ Respond(r, "success")
         ELSE /\ uploads' = uploads
              /\ Respond(r, "Failed to abort multipart upload")
    /\ UNCHANGED <<free, nextUpload, freq, fres, fcount, syncVars, unitVars, moreVars>>
    /\ UNCHANGED furls

\* ------------------------------------------------- completeFileUpload
\* a variant that registers the key without looking at the answer
ObjectExists_Unverified(r) ==
    /\ fpc[r] = "exists"
    /\ fpc' = [fpc EXCEPT ![r] = "register"]
    /\ UNCHANGED <<free, faults, uploads, nextUpload, freq, fres, fresp,
                   fcount, furls, syncVars, unitVars, moreVars>>

\* lines 98-103: await s3Service.objectExists(bucket, objectKey)
ObjectExists(r) ==
    /\ fpc[r] = "exists"
    /\ \E ok \in BOOLEAN : Outcome(ok) /\
         IF ~ok
         THEN Respond(r, "head object failed")
         ELSE IF ~ObjectStored(freq[r].objectKey)
         THEN Respond(r, "File not found in S3")
         ELSE /\ fpc' = [fpc EXCEPT ![r] = "register"]
              /\ fresp' = fresp
    /\ UNCHANGED <<free, uploads, nextUpload, freq, fres, fcount, syncVars,
                   unitVars, moreVars>>
    /\ UNCHANGED furls

\* lines 105-131: INSERT INTO s3_objects ... ON DUPLICATE KEY UPDATE through
\* db.query; insertId as in InsertRecord
RegisterRecord(r) ==
    /\ fpc[r] = "register"
    /\ free > 0
    /\ \E ok \in BOOLEAN : Outcome(ok) /\
         IF ~ok
         THEN /\ Respond(r, "query failed")
              /\ UNCHANGED <<objs, nextObjId, fres>>
         ELSE /\ ~ObjLocked(0, freq[r].objectKey)
              /\ IF KeyTaken(freq[r].objectKey)
                 THEN /\ objs' = Upserted(freq[r].objectKey, freq[r].meta)
                      /\ nextObjId' = nextObjId
                      /\ \E id \in {NoId} \cup
                             {o.id : o \in {x \in objs :
                                              x.key = freq[r].objectKey}} :
                           /\ fres' = [fres EXCEPT ![r] = id]
                           /\ fpc' = [fpc EXCEPT ![r] =
                                        IF id = NoId THEN "regselect"
                                        ELSE "regurl"]
                 ELSE /\ objs' = objs \cup {[id |-> nextObjId,
                                             key |-> freq[r].objectKey,
                                             src |-> <<0, 0>>,
                                             meta |-> freq[r].meta]}
                      /\ nextObjId' = nextObjId + 1
                      /\ fres' = [fres EXCEPT ![r] = nextObjId]
                      /\ fpc' = [fpc EXCEPT ![r] = "regurl"]
              /\ fresp' = fresp
    /\ UNCHANGED <<free, blobs, subs, atts, logs, queue, users, catalog,
                   nextSubId, pc, req, submissions, outs, tx, locals,
                   poolHist, failures, uploads, nextUpload, freq, fcount,
                   unitVars, moreVars>>
    /\ UNCHANGED furls

\* lines 132-143: the id of the existing row is read back
RegisterSelect(r) ==
    /\ fpc[r] = "regselect"
    /\ free > 0
    /\ \E ok \in BOOLEAN : Outcome(ok) /\
         IF ~ok
         THEN /\ Respond(r, "query failed")
              /\ fres' = fres
         ELSE IF ~KeyTaken(freq[r].objectKey)
         THEN /\ Respond(r, "Failed to retrieve S3 object record")
              /\ fres' = fres
         ELSE /\ \E o \in objs :
                   /\ o.key = freq[r].objectKey
                   /\ fres' = [fres EXCEPT ![r] = o.id]
              /\ fpc' = [fpc EXCEPT ![r] = "regurl"]
              /\ fresp' = fresp
    /\ UNCHANGED <<free, uploads, nextUpload, freq, fcount, syncVars, unitVars,
                   moreVars>>
    /\ UNCHANGED furls

\* lines 145-158: the download URL is signed and the response is sent
RegisterSign(r) ==
    /\ fpc[r] = "regurl"
    /\ \E ok \in BOOLEAN : Outcome(ok) /\
         IF ok
         THEN Respond(r, "success")
         ELSE Respond(r, "Failed to generate download URL")
    /\ UNCHANGED <<free, uploads, nextUpload, freq, fres, fcount, syncVars,
                   unitVars, moreVars>>
    /\ UNCHANGED furls

FileStep(r) ==
    \/ FileReceive(r) \/ InitiateUpload(r) \/ IssuePartUrl(r)
    \/ StoreComplete(r) \/ InsertRecord(r) \/ SelectRecord(r)
    \/ SignDownload(r) \/ StoreAbort(r)
    \/ ObjectExists(r) \/ RegisterRecord(r) \/ RegisterSelect(r)
    \/ RegisterSign(r)

\* ------------------------------------------------- createSubmission
\* part_000 line 739: submittedAt = status === 'draft' ? null : new Date(),
\* inside the callback handed to executeTransaction
CreateSubmittedAt(status) == IF status = "draft" THEN "null" ELSE "now"

\* the catch of part_000 lines 823-826, and the early returns through
\* next(new AppError(...)): the request ends with an error
CreateFail(r, msg) ==
    /\ cpc' = [cpc EXCEPT ![r] = "done"]
    /\ cresp' = [cresp EXCEPT ![r] = msg]

\* lines 661-673: the request body is read
CreateReceive(r) ==
    /\ cpc[r] = "idle"
    /\ \E it \in Items, perm \in BOOLEAN, member \in BOOLEAN :
         creq' = [creq EXCEPT ![r] = [body |-> it, mayCreateProject |-> perm,
                                      member |-> member]]
    /\ cpc' = [cpc EXCEPT ![r] = "tplcheck"]
    /\ UNCHANGED <<free, faults, cresp, syncVars, unitVars, fileVars, statusVars, formVars,
                   laterVars>>

\* lines 675-685: the form template must exist
CreateTemplateCheck(r) ==
    /\ cpc[r] = "tplcheck"
    /\ free > 0
    /\ \E ok \in BOOLEAN : Outcome(ok) /\
         IF ~ok
         THEN CreateFail(r, "query failed")
         ELSE IF creq[r].body.formTemplateId \notin templates
         THEN CreateFail(r, "Form template not found")
         ELSE /\ cpc' = [cpc EXCEPT ![r] = "vercheck"]
              /\ cresp' = cresp
    /\ UNCHANGED <<free, creq, syncVars, unitVars, fileVars, statusVars, formVars,
                   laterVars>>

\* lines 687-695: the (template, version) pair must exist; lines 697-698:
\* a user with the create_project permission needs no membership
CreateVersionCheck(r) ==
    /\ cpc[r] = "vercheck"
    /\ free > 0
    /\ \E ok \in BOOLEAN : Outcome(ok) /\
         IF ~ok
         THEN CreateFail(r, "query failed")
         ELSE IF <<creq[r].body.formTemplateId,
                   creq[r].body.formTemplateVersion>> \notin VersionPairs
         THEN CreateFail(r, "Form template version not found")
         ELSE /\ cpc' = [cpc EXCEPT ![r] =
                           IF creq[r].mayCreateProject THEN "transaction"
                           ELSE "access"]
              /\ cresp' = cresp
    /\ UNCHANGED <<free, creq, syncVars, unitVars, fileVars, statusVars, formVars,
                   laterVars>>

\* lines 699-706: the user must be a member of the template's project
CreateAccessCheck(r) ==
    /\ cpc[r] = "access"
    /\ free > 0
    /\ \E ok \in BOOLEAN : Outcome(ok) /\
         IF ~ok
         THEN CreateFail(r, "query failed")
         ELSE IF ~creq[r].member
         THEN CreateFail(r, "Access denied")
         ELSE /\ cpc' = [cpc EXCEPT ![r] = "transaction"]
              /\ cresp' = cresp
    /\ UNCHANGED <<free, creq, syncVars, unitVars, fileVars, statusVars, formVars,
                   laterVars>>

\* line 710: executeTransaction(db, callback).  submissionController.js
\* (part_000 lines 646-651) neither imports nor defines executeTransaction,
\* so evaluating the identifier throws a ReferenceError before the callback
\* of lines 710-817 is built into a call: nothing is put or inserted, and
\* the catch of line 823 passes the error on
CreateTransaction(r) ==
    /\ cpc[r] = "transaction"
    /\ CreateFail(r, "executeTransaction is not defined")
    /\ UNCHANGED <<free, faults, creq, syncVars, unitVars, fileVars, statusVars, formVars,
                   laterVars>>

CreateStep(r) ==
    \/ CreateReceive(r) \/ CreateTemplateCheck(r) \/ CreateVersionCheck(r)
    \/ CreateAccessCheck(r) \/ CreateTransaction(r)

\* ------------------------------------------------- updateSubmissionStatus
\* the statuses a request may name; only the first four pass line 1117
validStatuses == {"draft", "submitted", "verified", "rejected"}
RequestedStatuses == validStatuses \cup {"archived"}

\* the request ends: next(new AppError(...)), the catch of lines 1212-1215,
\* or the response of lines 1201-1211
StatusEnd(u, msg) ==
    /\ spc' = [spc EXCEPT ![u] = "done"]
    /\ sresp' = [sresp EXCEPT ![u] = msg]

\* lines 1112-1119: id and status are read and the status is validated
StatusReceive(u) ==
    /\ spc[u] \in {"idle", "done"}
    /\ scount < MaxUpdates
    /\ scount' = scount + 1
    /\ sold' = [sold EXCEPT ![u] = "none"]
    /\ \E id \in 1..2, st \in RequestedStatuses, verify \in BOOLEAN,
          perm \in BOOLEAN, member \in BOOLEAN :
         /\ sreq' = [sreq EXCEPT ![u] =
                       [id |-> id, status |-> st, mayVerify |-> verify,
                        mayCreateProject |-> perm, member |-> member]]
         /\ IF st \notin validStatuses
            THEN StatusEnd(u, "Invalid status")
            ELSE /\ spc' = [spc EXCEPT ![u] = "select"]
                 /\ sresp' = [sresp EXCEPT ![u] = "none"]
    /\ UNCHANGED <<free, faults, syncVars, unitVars, fileVars, createVars,
                   formVars,
                   laterVars>>

\* lines 1121-1141: the submission is looked up and its status kept in
\* submission.status; verifying or rejecting needs verify_submission
StatusSelect(u) ==
    /\ spc[u] = "select"
    /\ free > 0
    /\ \E ok \in BOOLEAN : Outcome(ok) /\
         IF ~ok
         THEN /\ StatusEnd(u, "query failed")
              /\ sold' = sold
         ELSE IF \A s \in subs : s.id # sreq[u].id
         THEN /\ StatusEnd(u, "Submission not found")
              /\ sold' = sold
         ELSE /\ \E s \in subs :
                   /\ s.id = sreq[u].id
                   /\ sold' = [sold EXCEPT ![u] = s.status]
              /\ IF sreq[u].status \in {"verified", "rejected"} /\ ~sreq[u].mayVerify
                 THEN StatusEnd(u, "You do not have permission to verify submissions")
                 ELSE /\ spc' = [spc EXCEPT ![u] =
                                   IF sreq[u].mayCreateProject THEN "update"
                                   ELSE "access"]
                      /\ sresp' = sresp
    /\ UNCHANGED <<free, sreq, scount, syncVars, unitVars, fileVars, createVars,
                   formVars,
                   laterVars>>

\* lines 1143-1153: the user must be a member of the submission's project
StatusAccess(u) ==
    /\ spc[u] = "access"
    /\ free > 0
    /\ \E ok \in BOOLEAN : Outcome(ok) /\
         IF ~ok
         THEN StatusEnd(u, "query failed")
         ELSE IF ~sreq[u].member
         THEN StatusEnd(u, "Access denied")
         ELSE /\ spc' = [spc EXCEPT ![u] = "update"]
              /\ sresp' = sresp
    /\ UNCHANGED <<free, sreq, sold, scount, syncVars, unitVars, fileVars,
                   createVars,
                   formVars,
                   laterVars>>

\* lines 1155-1170: the columns the UPDATE sets: status always,
\* submitted_at only when the status read was 'draft' and the new one is
\* 'submitted'
Updated(s, old, status) ==
    [s EXCEPT !.status = status,
              !.verifiedAt = IF status \in {"verified", "rejected"}
                             THEN "now" ELSE @,
              !.verifiedBy = IF status \in {"verified", "rejected"}
                             THEN 1 ELSE @,
              !.submittedAt = IF old = "draft" /\ status = "submitted"
                              THEN "now" ELSE @]

\* lines 1172-1180: UPDATE form_submissions SET ... WHERE id = ?
StatusUpdate(u) ==
    /\ spc[u] = "update"
    /\ free > 0
    /\ \E ok \in BOOLEAN : Outcome(ok) /\
         IF ~ok
         THEN /\ StatusEnd(u, "query failed")
              /\ subs' = subs
         ELSE /\ subs' = {IF s.id = sreq[u].id
                          THEN Updated(s, sold[u], sreq[u].status)
                          ELSE s : s \in subs}
              /\ spc' = [spc EXCEPT ![u] = "log"]
              /\ sresp' = sresp
    /\ UNCHANGED <<free, blobs, objs, atts, logs, queue, users, catalog,
                   counters, pc, req, submissions, outs, tx, locals, poolHist,
                   failures, sreq, sold, scount, unitVars, fileVars,
                   createVars,
                   formVars,
                   laterVars>>

\* lines 1182-1211: the activity log row, then the response
StatusLog(u) ==
    /\ spc[u] = "log"
    /\ free > 0
    /\ \E ok \in BOOLEAN : Outcome(ok) /\
         IF ~ok
         THEN /\ StatusEnd(u, "query failed")
              /\ logs' = logs
         ELSE /\ logs' = logs \cup {[uuid |-> "none", src |-> <<0, u>>,
                                     user |-> u,
                                     activity |-> "submission_status_update",
                                     entity |-> sreq[u].id]}
              /\ StatusEnd(u, "success")
    /\ UNCHANGED <<free, blobs, subs, objs, atts, queue, users, catalog,
                   counters, pc, req, submissions, outs, tx, locals, poolHist,
                   failures, sreq, sold, scount, unitVars, fileVars,
                   createVars,
                   formVars,
                   laterVars>>

StatusStep(u) ==
    \/ StatusReceive(u) \/ StatusSelect(u) \/ StatusAccess(u)
    \/ StatusUpdate(u) \/ StatusLog(u)

\* ------------------------------------------------- form templates
\* names a client may give a template
Names == {"a", "A", "b"}

\* name.toLowerCase().replace(/\s+/g, '-')
Slug(name) == IF name = "A" THEN "a" ELSE name

\* `projects/${projectId}/form-templates/${slug}-v${version}.json`
SchemaKey(project, name, version) ==
    <<100 + project,
      IF Slug(name) = "a"
      THEN (CASE version = 1 -> "a-v1" [] version = 2 -> "a-v2" [] OTHER -> "a-v3")
      ELSE (CASE version = 1 -> "b-v1" [] version = 2 -> "b-v2" [] OTHER -> "b-v3")>>

\* the request bodies of createForm, updateForm and deleteForm, with the
\* caller's rights: access is "perm" for a user with the permission the
\* handler asks for, "member" for a member of the project, "none" otherwise
FormBodies ==
    {[kind |-> "create", id |-> NoId, project |-> 1, name |-> name,
      schema |-> schema, access |-> "perm"] :
        name \in Names, schema \in {"s1", "s2"}}
    \cup
    {[kind |-> "create", id |-> NoId, project |-> p, name |-> "b",
      schema |-> "s2", access |-> a] :
        p \in {1, 2}, a \in {"member", "none"}}
    \cup
    {[kind |-> "update", id |-> id, project |-> NoId, name |-> name,
      schema |-> schema, access |-> "perm"] :
        id \in {1, 2}, name \in {"none", "A"}, schema \in {"none", "s2"}}
    \cup
    {[kind |-> "update", id |-> id, project |-> NoId, name |-> "none",
      schema |-> "s2", access |-> "none"] : id \in {1, 9}}
    \cup
    \* a schema string that is not JSON
    {[kind |-> "update", id |-> 1, project |-> NoId, name |-> "none",
      schema |-> "bad", access |-> "perm"]}
    \cup
    {[kind |-> "delete", id |-> id, project |-> NoId, name |-> "none",
      schema |-> "none", access |-> "perm"] : id \in {1, 2, 9}}

\* the form_templates row with an id, as a set
FormRow(id) == {f \in forms : f.id = id}

\* rows another form request's open transaction holds under the key
SchemaLocked(r, key) ==
    \E d \in FormReqs \ {r} : \E o \in ttx[d].objs : o.key = key

\* the request ends with a response or with next(error)
FormRespond(r, msg) ==
    /\ tpc' = [tpc EXCEPT ![r] = "done"]
    /\ tresp' = [tresp EXCEPT ![r] = msg]

\* a throw inside the try block of a transaction: control passes to the
\* catch that rolls back
FormThrow(r, msg, catch) ==
    /\ tpc' = [tpc EXCEPT ![r] = catch]
    /\ tresp' = [tresp EXCEPT ![r] = msg]

\* a statement of a handler's transaction: it throws, or it leaves the
\* pending changes newTx and the locals newRes
FormStatement(r, from, to, catch, msg, newTx, newRes, newId) ==
    /\ tpc[r] = from
    /\ \E ok \in BOOLEAN : Outcome(ok) /\
         IF ok
         THEN /\ tpc' = [tpc EXCEPT ![r] = to]
              /\ ttx' = [ttx EXCEPT ![r] = newTx]
              /\ tres' = [tres EXCEPT ![r] = newRes]
              /\ nextFormId' = newId
              /\ tresp' = tresp
         ELSE /\ FormThrow(r, msg, catch)
              /\ UNCHANGED <<ttx, tres, nextFormId>>
    /\ UNCHANGED <<free, forms, cache, sblobs, treq, tcount,
                   syncVars, unitVars, fileVars, createVars, statusVars,
                   laterVars>>

\* db.getConnection(): a connection is reserved, or the call throws and the
\* outer catch passes the error on
FormConnection(r, from, to) ==
    /\ tpc[r] = from
    /\ \E ok \in BOOLEAN : Outcome(ok) /\
         IF ok
         THEN /\ free > 0
              /\ free' = free - 1
              /\ tpc' = [tpc EXCEPT ![r] = to]
              /\ tresp' = tresp
         ELSE /\ free' = free
              /\ FormRespond(r, "getConnection failed")
    /\ UNCHANGED <<forms, cache, sblobs, nextFormId, treq, ttx, tres, tcount,
                   syncVars, unitVars, fileVars, createVars, statusVars,
                   laterVars>>

\* s3Service.putObject into the form-schemas bucket: the object under the
\* key is replaced
FormPut(r, from, to, catch, key) ==
    /\ tpc[r] = from
    /\ \E ok \in BOOLEAN : Outcome(ok) /\
         IF ok
         THEN /\ sblobs' = [sblobs EXCEPT ![key] = treq[r].schema]
              /\ tpc' = [tpc EXCEPT ![r] = to]
              /\ tresp' = tresp
         ELSE /\ sblobs' = sblobs
              /\ FormThrow(r, "Failed to upload object to S3", catch)
    /\ UNCHANGED <<free, forms, cache, nextFormId, treq, ttx, tres, tcount,
                   syncVars, unitVars, fileVars, createVars, statusVars,
                   laterVars>>

\* the same INSERT on a table without the unique key: the row is always
\* inserted
FormInsertObject_NoUniqueKey(r, from, to, catch, key) ==
    /\ tpc[r] = from
    /\ \E ok \in BOOLEAN : Outcome(ok) /\
         IF ~ok
         THEN /\ FormThrow(r, "insert s3_objects failed", catch)
              /\ UNCHANGED <<ttx, tres, nextObjId>>
         ELSE /\ ttx' = [ttx EXCEPT ![r].objs =
                           @ \cup {[id |-> nextObjId, key |-> key,
                                    src |-> <<-r, 0>>]}]
              /\ tres' = [tres EXCEPT ![r].schema = nextObjId]
              /\ nextObjId' = nextObjId + 1
              /\ tpc' = [tpc EXCEPT ![r] = to]
              /\ tresp' = tresp
    /\ UNCHANGED <<free, blobs, subs, objs, atts, logs, queue, users, catalog,
                   nextSubId, pc, req, submissions, outs, tx, locals,
                   poolHist, failures, forms, cache, sblobs, nextFormId, treq,
                   tcount, unitVars, fileVars, createVars, statusVars,
                   laterVars>>

\* a plain INSERT INTO s3_objects inside the transaction: a key that is
\* taken makes the statement throw
FormInsertObject(r, from, to, catch, key) ==
    /\ tpc[r] = from
    /\ \E ok \in BOOLEAN : Outcome(ok) /\
         IF ~ok
         THEN /\ FormThrow(r, "insert s3_objects failed", catch)
              /\ UNCHANGED <<ttx, tres, nextObjId>>
         ELSE /\ ~SchemaLocked(r, key)
              /\ IF KeyTaken(key)
                 THEN /\ FormThrow(r, "Duplicate entry for s3_objects key", catch)
                      /\ UNCHANGED <<ttx, tres, nextObjId>>
                 ELSE /\ ttx' = [ttx EXCEPT ![r].objs =
                                   @ \cup {[id |-> nextObjId, key |-> key,
                                            src |-> <<-r, 0>>]}]
                      /\ tres' = [tres EXCEPT ![r].schema = nextObjId]
                      /\ nextObjId' = nextObjId + 1
                      /\ tpc' = [tpc EXCEPT ![r] = to]
                      /\ tresp' = tresp
    /\ UNCHANGED <<free, blobs, subs, objs, atts, logs, queue, users, catalog,
                   nextSubId, pc, req, submissions, outs, tx, locals,
                   poolHist, failures, forms, cache, sblobs, nextFormId, treq,
                   tcount, unitVars, fileVars, createVars, statusVars,
                   laterVars>>

\* UPDATE form_templates SET <the fields given> WHERE id = ?, for the
\* pending updates of a transaction
FormUpdated(f, set) ==
    IF Len(set) = 1 /\ set[1].id = f.id
    THEN [f EXCEPT !.name = IF set[1].name # "none" THEN set[1].name ELSE @,
                   !.schema = IF set[1].schema # NoId THEN set[1].schema ELSE @,
                   !.version = IF set[1].version # 0 THEN set[1].version ELSE @]
    ELSE f

\* connection.commit(): the pending changes take effect, the response is
\* sent and the finally block releases the connection
FormCommit(r, from, catch) ==
    /\ tpc[r] = from
    /\ \E ok \in BOOLEAN : Outcome(ok) /\
         IF ~ok
         THEN /\ FormThrow(r, "commit failed", catch)
              /\ UNCHANGED <<free, objs, templates, versions, forms, cache, ttx>>
         ELSE /\ objs' = {o \in objs : <<"obj", o.id>> \notin ttx[r].dels}
                            \cup ttx[r].objs
              /\ forms' = {FormUpdated(f, ttx[r].set) :
                             f \in {g \in forms :
                                      <<"form", g.id>> \notin ttx[r].dels}}
                            \cup ttx[r].forms
              /\ templates' = {t \in templates : <<"form", t>> \notin ttx[r].dels}
                                \cup {f.id : f \in ttx[r].forms}
              /\ versions' = {v \in versions :
                                <<"versions", v[1]>> \notin ttx[r].dels}
                               \cup ttx[r].versions
              /\ cache' = {e \in cache : <<"cache", e.schema>> \notin ttx[r].dels}
                            \cup ttx[r].cache
              /\ ttx' = [ttx EXCEPT ![r] = NoFormTx]
              /\ free' = free + 1
              /\ FormRespond(r, "success")
    /\ UNCHANGED <<blobs, subs, atts, logs, queue, users, counters, pc, req,
                   submissions, outs, tx, locals, poolHist, failures, sblobs,
                   nextFormId, treq, tres, tcount, unitVars, fileVars,
                   createVars, statusVars,
                   laterVars>>

\* catch: connection.rollback(), throw error; finally: connection.release();
\* the outer catch passes the error on
FormRollback(r, catch) ==
    /\ tpc[r] = catch
    /\ ttx' = [ttx EXCEPT ![r] = NoFormTx]
    /\ free' = free + 1
    /\ \E ok \in BOOLEAN : Outcome(ok) /\
         IF ok THEN FormRespond(r, tresp[r])
         ELSE FormRespond(r, "rollback failed")
    /\ UNCHANGED <<forms, cache, sblobs, nextFormId, treq, tres, tcount,
                   syncVars, unitVars, fileVars, createVars, statusVars,
                   laterVars>>

\* a statement through db.query outside a transaction: it throws and the
\* outer catch passes the error on, or the handler refuses, or it goes on
FormQuery(r, from, refuse, to) ==
    /\ tpc[r] = from
    /\ free > 0
    /\ \E ok \in BOOLEAN : Outcome(ok) /\
         IF ~ok THEN FormRespond(r, "query failed")
         ELSE IF refuse # "no" THEN FormRespond(r, refuse)
         ELSE /\ tpc' = [tpc EXCEPT ![r] = to]
              /\ tresp' = tresp
    /\ UNCHANGED <<free, forms, cache, sblobs, nextFormId, treq, ttx, tres,
                   tcount, syncVars, unitVars, fileVars, createVars,
                   statusVars,
                   laterVars>>

\* the request is read
FormReceive(r) ==
    /\ tpc[r] = "idle"
    /\ tcount < MaxFormReqs
    /\ tcount' = tcount + 1
    /\ \E q \in FormBodies :
         /\ treq' = [treq EXCEPT ![r] = q]
         /\ tpc' = [tpc EXCEPT ![r] =
                      CASE q.kind = "create" -> "c_project"
                        [] q.kind = "update" -> "u_select"
                        [] OTHER -> "d_select"]
    /\ UNCHANGED <<free, faults, forms, cache, sblobs, nextFormId, tresp, ttx,
                   tres, syncVars, unitVars, fileVars, createVars, statusVars,
                   laterVars>>

\* ------------------------------------------------- createForm
\* part_000 lines 242-249: the project must exist
CreateFormProject(r) ==
    /\ FormQuery(r, "c_project",
                 IF treq[r].project \in ProjectIds THEN "no"
                 ELSE "Project not found",
                 IF treq[r].access = "perm" THEN "c_conn" ELSE "c_access")

\* lines 252-261: a user without create_project must be a member
CreateFormAccess(r) ==
    /\ FormQuery(r, "c_access",
                 IF treq[r].access = "member" THEN "no" ELSE "Access denied",
                 "c_conn")

\* line 276
CreateFormConnection(r) == FormConnection(r, "c_conn", "c_begin")

\* line 279
CreateFormBegin(r) ==
    FormStatement(r, "c_begin", "c_put", "c_rollback", "begin failed",
                  [ttx[r] EXCEPT !.open = TRUE], tres[r], nextFormId)

\* lines 281-289: the key is derived from the project and the name
CreateFormPut(r) ==
    FormPut(r, "c_put", "c_insobj", "c_rollback",
            SchemaKey(treq[r].project, treq[r].name, 1))

\* lines 291-307
CreateFormObject(r) ==
    FormInsertObject(r, "c_insobj", "c_insform", "c_rollback",
                     SchemaKey(treq[r].project, treq[r].name, 1))

\* lines 309-318: INSERT INTO form_templates
CreateFormTemplate(r) ==
    FormStatement(r, "c_insform", "c_insver", "c_rollback",
                  "insert form_templates failed",
                  [ttx[r] EXCEPT !.forms =
                     @ \cup {[id |-> nextFormId, project |-> treq[r].project,
                              name |-> treq[r].name, version |-> 1,
                              schema |-> tres[r].schema, active |-> TRUE]}],
                  [tres[r] EXCEPT !.form = nextFormId],
                  nextFormId + 1)

\* lines 320-327: INSERT INTO form_template_versions
CreateFormVersion(r) ==
    FormStatement(r, "c_insver", "c_inscache", "c_rollback",
                  "insert form_template_versions failed",
                  [ttx[r] EXCEPT !.versions =
                     @ \cup {<<tres[r].form, 1, tres[r].schema>>}],
                  tres[r], nextFormId)

\* lines 329-336: INSERT INTO schema_cache
CreateFormCache(r) ==
    FormStatement(r, "c_inscache", "c_commit", "c_rollback",
                  "insert schema_cache failed",
                  [ttx[r] EXCEPT !.cache =
                     @ \cup {[schema |-> tres[r].schema,
                              json |-> treq[r].schema]}],
                  tres[r], nextFormId)

\* lines 338-354
CreateFormCommit(r) == FormCommit(r, "c_commit", "c_rollback")

\* lines 355-360
CreateFormRollback(r) == FormRollback(r, "c_rollback")

CreateFormStep(r) ==
    \/ CreateFormProject(r) \/ CreateFormAccess(r) \/ CreateFormConnection(r)
    \/ CreateFormBegin(r) \/ CreateFormPut(r) \/ CreateFormObject(r)
    \/ CreateFormTemplate(r) \/ CreateFormVersion(r) \/ CreateFormCache(r)
    \/ CreateFormCommit(r) \/ CreateFormRollback(r)

\* ------------------------------------------------- updateForm
\* part_000 lines 377-396: the template is read with its schema record
\* (JOIN s3_objects), then the edit_form permission is checked
UpdateFormSelect(r) ==
    /\ tpc[r] = "u_select"
    /\ free > 0
    /\ \E ok \in BOOLEAN : Outcome(ok) /\
         IF ~ok
         THEN /\ FormRespond(r, "query failed")
              /\ tres' = tres
         ELSE IF ~\E f \in FormRow(treq[r].id) : \E o \in objs : o.id = f.schema
         THEN /\ FormRespond(r, "Form template not found")
              /\ tres' = tres
         ELSE IF treq[r].access # "perm"
         THEN /\ FormRespond(r, "Permission denied")
              /\ tres' = tres
         ELSE /\ \E f \in FormRow(treq[r].id) :
                   tres' = [tres EXCEPT ![r] =
                              [form |-> f.id, schema |-> f.schema,
                               version |-> f.version, name |-> f.name,
                               project |-> f.project]]
              /\ tpc' = [tpc EXCEPT ![r] = "u_conn"]
              /\ tresp' = tresp
    /\ UNCHANGED <<free, forms, cache, sblobs, nextFormId, treq, ttx, tcount,
                   syncVars, unitVars, fileVars, createVars, statusVars,
                   laterVars>>

\* line 399
UpdateFormConnection(r) == FormConnection(r, "u_conn", "u_begin")

\* lines 402-421, 459-467 and 530-532: with a schema the new version is
\* written first; without one only the given fields are updated.  A schema
\* string that JSON.parse refuses ends the request by return next(...)
\* inside the try block: the catch of line 527 is not entered and the
\* finally releases the connection
UpdateFormBegin(r) ==
    /\ tpc[r] = "u_begin"
    /\ \E ok \in BOOLEAN : Outcome(ok) /\
         IF ~ok
         THEN /\ FormThrow(r, "begin failed", "u_rollback")
              /\ UNCHANGED <<ttx, free>>
         ELSE /\ ttx' = [ttx EXCEPT ![r].open = TRUE]
              /\ IF treq[r].schema = "bad"
                 THEN /\ FormRespond(r, "Invalid schema JSON format")
                      /\ free' = free + 1
                 ELSE /\ tpc' = [tpc EXCEPT ![r] =
                                   IF treq[r].schema # "none" THEN "u_put"
                                   ELSE IF treq[r].name # "none" THEN "u_update"
                                   ELSE "u_commit"]
                      /\ UNCHANGED <<tresp, free>>
    /\ UNCHANGED <<forms, cache, sblobs, nextFormId, treq, tres, tcount,
                   syncVars, unitVars, fileVars, createVars, statusVars,
                   laterVars>>

\* lines 420-431: newVersion = form.version + 1, the key is derived from
\* the project, the name and the version read at line 377
UpdateFormPut(r) ==
    FormPut(r, "u_put", "u_insobj", "u_rollback",
            SchemaKey(tres[r].project, tres[r].name, tres[r].version + 1))

\* lines 433-449
UpdateFormObject(r) ==
    FormInsertObject(r, "u_insobj", "u_insver", "u_rollback",
                     SchemaKey(tres[r].project, tres[r].name,
                               tres[r].version + 1))

\* lines 454-461: INSERT INTO form_template_versions
UpdateFormVersion(r) ==
    FormStatement(r, "u_insver", "u_inscache", "u_rollback",
                  "insert form_template_versions failed",
                  [ttx[r] EXCEPT !.versions =
                     @ \cup {<<treq[r].id, tres[r].version + 1,
                               tres[r].schema>>}],
                  tres[r], nextFormId)

\* lines 460-469: INSERT INTO schema_cache
UpdateFormCache(r) ==
    FormStatement(r, "u_inscache", "u_update", "u_rollback",
                  "insert schema_cache failed",
                  [ttx[r] EXCEPT !.cache =
                     @ \cup {[schema |-> tres[r].schema,
                              json |-> treq[r].schema]}],
                  tres[r], nextFormId)

\* lines 472-507: UPDATE form_templates SET the fields given
UpdateFormTemplate(r) ==
    FormStatement(r, "u_update", "u_commit", "u_rollback",
                  "update form_templates failed",
                  [ttx[r] EXCEPT !.set =
                     <<[id |-> treq[r].id, name |-> treq[r].name,
                        schema |-> IF treq[r].schema # "none"
                                   THEN tres[r].schema ELSE NoId,
                        version |-> IF treq[r].schema # "none"
                                    THEN tres[r].version + 1 ELSE 0]>>],
                  tres[r], nextFormId)

\* lines 509-523
UpdateFormCommit(r) == FormCommit(r, "u_commit", "u_rollback")

\* lines 524-529
UpdateFormRollback(r) == FormRollback(r, "u_rollback")

UpdateFormStep(r) ==
    \/ UpdateFormSelect(r) \/ UpdateFormConnection(r) \/ UpdateFormBegin(r)
    \/ UpdateFormPut(r) \/ UpdateFormObject(r) \/ UpdateFormVersion(r)
    \/ UpdateFormCache(r) \/ UpdateFormTemplate(r) \/ UpdateFormCommit(r)
    \/ UpdateFormRollback(r)

\* ------------------------------------------------- deleteForm
\* part_000 lines 546-554: the template must exist
DeleteFormSelect(r) ==
    FormQuery(r, "d_select",
              IF FormRow(treq[r].id) = {} THEN "Form template not found"
              ELSE "no",
              "d_count")

\* lines 556-565: a template with submissions is not deleted
DeleteFormCount(r) ==
    FormQuery(r, "d_count", "no",
              IF \E s \in subs : s.formTemplateId = treq[r].id
              THEN "d_deactivate" ELSE "d_conn")

\* lines 566-578: UPDATE form_templates SET is_active = 0 through db.query
DeleteFormDeactivate(r) ==
    /\ tpc[r] = "d_deactivate"
    /\ free > 0
    /\ \E ok \in BOOLEAN : Outcome(ok) /\
         IF ok
         THEN /\ forms' = {IF f.id = treq[r].id THEN [f EXCEPT !.active = FALSE]
                           ELSE f : f \in forms}
              /\ FormRespond(r, "deactivated")
         ELSE /\ forms' = forms
              /\ FormRespond(r, "query failed")
    /\ UNCHANGED <<free, cache, sblobs, nextFormId, treq, ttx, tres, tcount,
                   syncVars, unitVars, fileVars, createVars, statusVars,
                   laterVars>>

\* line 582
DeleteFormConnection(r) == FormConnection(r, "d_conn", "d_begin")

\* line 585
DeleteFormBegin(r) ==
    FormStatement(r, "d_begin", "d_delver", "d_rollback", "begin failed",
                  [ttx[r] EXCEPT !.open = TRUE], tres[r], nextFormId)

\* lines 587-591: DELETE FROM form_template_versions
DeleteFormVersions(r) ==
    FormStatement(r, "d_delver", "d_selschema", "d_rollback",
                  "delete form_template_versions failed",
                  [ttx[r] EXCEPT !.dels = @ \cup {<<"versions", treq[r].id>>}],
                  tres[r], nextFormId)

\* lines 593-599: the schema record id is read from the template's row;
\* s3Objects[0][0] of a template that is gone is undefined and reading its
\* property throws
DeleteFormSchemaId(r) ==
    /\ tpc[r] = "d_selschema"
    /\ \E ok \in BOOLEAN : Outcome(ok) /\
         IF ~ok
         THEN /\ FormThrow(r, "select form_templates failed", "d_rollback")
              /\ tres' = tres
         ELSE IF FormRow(treq[r].id) = {}
         THEN /\ FormThrow(r, "Cannot read properties of undefined", "d_rollback")
              /\ tres' = tres
         ELSE /\ \E f \in FormRow(treq[r].id) :
                   tres' = [tres EXCEPT ![r].schema = f.schema]
              /\ tpc' = [tpc EXCEPT ![r] = "d_delcache"]
              /\ tresp' = tresp
    /\ UNCHANGED <<free, forms, cache, sblobs, nextFormId, treq, ttx, tcount,
                   syncVars, unitVars, fileVars, createVars, statusVars,
                   laterVars>>

\* lines 601-605: DELETE FROM schema_cache
DeleteFormCache(r) ==
    FormStatement(r, "d_delcache", "d_delform", "d_rollback",
                  "delete schema_cache failed",
                  [ttx[r] EXCEPT !.dels = @ \cup {<<"cache", tres[r].schema>>}],
                  tres[r], nextFormId)

\* lines 607-611: DELETE FROM form_templates
DeleteFormTemplate(r) ==
    FormStatement(r, "d_delform", "d_delobj", "d_rollback",
                  "delete form_templates failed",
                  [ttx[r] EXCEPT !.dels = @ \cup {<<"form", treq[r].id>>}],
                  tres[r], nextFormId)

\* lines 613-617: DELETE FROM s3_objects WHERE id = schemaS3ObjectId; no
\* statement looks for rows that reference the record
DeleteFormObject(r) ==
    FormStatement(r, "d_delobj", "d_commit", "d_rollback",
                  "delete s3_objects failed",
                  [ttx[r] EXCEPT !.dels = @ \cup {<<"obj", tres[r].schema>>}],
                  tres[r], nextFormId)

\* lines 619-624
DeleteFormCommit(r) == FormCommit(r, "d_commit", "d_rollback")

\* lines 625-630
DeleteFormRollback(r) == FormRollback(r, "d_rollback")

\* the steps of deleteForm on a template without submissions
DeleteFormStep(r) ==
    \/ DeleteFormSelect(r) \/ DeleteFormCount(r)
    \/ DeleteFormConnection(r) \/ DeleteFormBegin(r) \/ DeleteFormVersions(r)
    \/ DeleteFormSchemaId(r) \/ DeleteFormCache(r) \/ DeleteFormTemplate(r)
    \/ DeleteFormObject(r) \/ DeleteFormCommit(r) \/ DeleteFormRollback(r)

\* ------------------------------------------------- getSyncStatus
\* LIMIT 50
Limit == 50

\* INTERVAL 24 HOUR
WindowHours == 24

\* updated_at >= DATE_SUB(NOW(), INTERVAL 24 HOUR), a variant without it
Recent_Always(row, at) == TRUE

\* updated_at >= DATE_SUB(NOW(), INTERVAL 24 HOUR)
Recent(row, at) == row.updatedAt >= at - WindowHours

\* WHERE user_id = ? AND device_id = ? AND status = 'completed' AND ...
Selected(row, q) ==
    /\ row.user = q.user /\ row.device = q.device
    /\ row.status = "completed"
    /\ Recent(row, q.at)

\* ORDER BY updated_at DESC: row i comes before row j; rows with equal
\* updated_at come in an order the server chooses (tie)
Before(i, j, tie) ==
    \/ stamps[i].updatedAt > stamps[j].updatedAt
    \/ /\ stamps[i].updatedAt = stamps[j].updatedAt
       /\ IF tie = "asc" THEN i <= j ELSE i >= j

\* the selected rows among the first n, in the order of ORDER BY, cut by
\* LIMIT 50: the row at position k is the one that k - 1 selected rows
\* come before
Limited(n, q, tie) ==
    LET sel == {i \in 1..n : Selected(stamps[i], q)}
        pos == [i \in sel |->
                  1 + Cardinality({j \in sel : j # i /\ Before(j, i, tie)})]
        m == IF Cardinality(sel) > Limit THEN Limit ELSE Cardinality(sel)
    IN [k \in 1..m |-> CHOOSE i \in sel : pos[i] = k]

\* a variant of the WHERE clause without the device
PendingRow_AnyDevice(row, q) ==
    row.user = q.user /\ row.status \in {"pending", "failed"}

\* lines 319-326: WHERE user_id = ? AND device_id = ? AND status IN
\* ('pending', 'failed')
PendingRow(row, q) ==
    /\ row.user = q.user /\ row.device = q.device
    /\ row.status \in {"pending", "failed"}

\* the pending rows among the first n in the order of ORDER BY created_at
\* DESC, without LIMIT; no statement updates a row, so created_at is the
\* row's updated_at
PendingOf(n, q, tie) ==
    LET sel == {i \in 1..n : PendingRow(stamps[i], q)}
        pos == [i \in sel |->
                  1 + Cardinality({j \in sel : j # i /\ Before(j, i, tie)})]
    IN [k \in 1..Cardinality(sel) |-> CHOOSE i \in sel : pos[i] = k]

\* the runs of rows written so far
Runs == IF stamps = <<>> THEN 0 ELSE stamps[Len(stamps)].run

\* syncSubmissions calls write a run of n sync_queue rows for a user and a
\* device within the hour; updated_at takes the time of the INSERT
QueueRun ==
    /\ qreq.user = 0
    /\ Len(stamps) < MaxRows
    /\ Runs < MaxRuns
    /\ \E n \in {1, Limit + 1}, who \in {<<1, "d1">>, <<1, "d2">>, <<2, "d1">>},
          st \in {"completed", "failed"} :
         /\ Len(stamps) + n <= MaxRows
         /\ stamps' = stamps \o [i \in 1..n |->
                                   [user |-> who[1], device |-> who[2],
                                    status |-> st, updatedAt |-> now,
                                    run |-> Runs + 1]]
    /\ UNCHANGED <<now, qreq, completedItems, pendingItems, free, faults, syncVars, unitVars,
                   fileVars, createVars, statusVars, formVars, nest, keyVars>>

\* time passes
Tick ==
    /\ qreq.user = 0
    /\ \E h \in {WindowHours \div 2, WindowHours \div 2 + 1} :
         /\ now + h <= MaxHours
         /\ now' = now + h
    /\ UNCHANGED <<stamps, qreq, completedItems, pendingItems, free, faults, syncVars,
                   unitVars, fileVars, createVars, statusVars, formVars, nest, keyVars>>

\* lines 304-347: the pending and the completed items of the user and the
\* device
GetSyncStatus ==
    /\ qreq.user = 0
    /\ \E user \in {1, 2}, tie \in {"asc", "desc"} :
         LET q == [user |-> user, device |-> "d1", at |-> now,
                   rows |-> Len(stamps)] IN
         /\ qreq' = q
         /\ completedItems' = Limited(Len(stamps), q, tie)
         /\ pendingItems' = PendingOf(Len(stamps), q, tie)
    /\ UNCHANGED <<now, stamps, free, faults, syncVars, unitVars, fileVars,
                   createVars, statusVars, formVars, nest, keyVars>>

\* ------------------------------------------------- specifications
\* concurrent syncSubmissions requests
Next == \E c \in Calls : SyncStep(c)

Spec == Init /\ [][Next]_vars

\* the requests are served one after the other
SeqNext ==
    \E c \in Calls :
        /\ \A d \in Calls \ {c} : pc[d] \in {"idle", "done"}
        /\ SyncStep(c)

SeqSpec == Init /\ [][SeqNext]_vars

\* callers of executeTransaction beside one syncSubmissions request, on the
\* same pool
TxNext == (\E t \in Units : UnitStep(t)) \/ SyncStep(1)

TxSpec == Init /\ [][TxNext]_vars

\* concurrent multipart requests and the clients that put the parts
FileNext == (\E r \in FileReqs : FileStep(r)) \/ (\E h \in Handles : PutPart(h))

FileSpec == Init /\ [][FileNext]_vars

\* a completeFileUpload request arrives
RegisterReceive(r) ==
    /\ fcount < MaxRegisters
    /\ FileReceive(r)
    /\ freq'[r].kind = "register"

RegisterStep(r) ==
    \/ RegisterReceive(r) \/ ObjectExists(r) \/ RegisterRecord(r)
    \/ RegisterSelect(r) \/ RegisterSign(r)

\* completeFileUpload requests beside one syncSubmissions request
LedgerNext == SyncStep(1) \/ RegisterStep(1)

LedgerSpec == Init /\ [][LedgerNext]_vars

\* the templates 1 ("a") and 2 ("b") of project 1 as createForm left them,
\* after earlier templates were created and deleted: schema records 8 and 7
SeededForms ==
    /\ forms = {[id |-> 1, project |-> 1, name |-> "a", version |-> 1,
                 schema |-> 8, active |-> TRUE],
                [id |-> 2, project |-> 1, name |-> "b", version |-> 1,
                 schema |-> 7, active |-> TRUE]}
    /\ objs = {[id |-> 8, key |-> SchemaKey(1, "a", 1), src |-> <<0, 0>>],
               [id |-> 7, key |-> SchemaKey(1, "b", 1), src |-> <<0, 0>>]}
    /\ cache = {[schema |-> 8, json |-> "s1"], [schema |-> 7, json |-> "s1"]}
    /\ sblobs = [k \in SchemaKeys |->
                   IF k \in {SchemaKey(1, "a", 1), SchemaKey(1, "b", 1)}
                   THEN "s1" ELSE NoBlob]
    /\ nextObjId = 9 /\ nextFormId = 3
    /\ templates = {1, 2}
    /\ versions = {<<1, 1, 8>>, <<2, 1, 7>>}
    /\ FormReqsIdle

\* no syncSubmissions request has arrived and its tables are empty
SyncIdle ==
    /\ free = connectionLimit /\ faults = 0
    /\ blobs = [k \in Keys |-> NoBlob]
    /\ subs = {} /\ atts = {} /\ logs = {} /\ queue = {}
    /\ users = [c \in Calls |-> NoDevice]
    /\ nextSubId = 1
    /\ pc = [c \in Calls |-> "idle"]
    /\ req = [c \in Calls |-> [deviceId |-> NoDevice, n |-> 0]]
    /\ submissions = [c \in Calls |-> <<>>]
    /\ results = [c \in Calls |-> <<>>]
    /\ syncedCount = [c \in Calls |-> 0]
    /\ errorCount = [c \in Calls |-> 0]
    /\ resp = [c \in Calls |-> "none"]
    /\ tx = [c \in Calls |-> EmptyTx]
    /\ error = [c \in Calls |-> "none"]
    /\ dataS3ObjectId = [c \in Calls |-> NoId]
    /\ submissionId = [c \in Calls |-> NoId]
    /\ fileIdx = [c \in Calls |-> 0]
    /\ acquired = [c \in Calls |-> 0]
    /\ released = [c \in Calls |-> 0]
    /\ failures = [c \in Calls |-> {}]

\* the other operations, form requests aside, have not run
RestIdle ==
    /\ projects = {}
    /\ upc = [t \in Units |-> "idle"]
    /\ utx = [t \in Units |-> {}]
    /\ uerr = [t \in Units |-> "none"]
    /\ uout = [t \in Units |-> <<"none", "none">>]
    /\ ureleased = [t \in Units |-> 0]
    /\ uhist = [t \in Units |-> [entered |-> FALSE, raised |-> "none",
                                 result |-> "none", commits |-> 0,
                                 rollbacks |-> 0]]
    /\ uploads = [h \in Handles |-> NoUpload]
    /\ nextUpload = 1
    /\ fpc = [r \in FileReqs |-> "idle"]
    /\ freq = [r \in FileReqs |-> NoFileReq]
    /\ fres = [r \in FileReqs |-> NoId]
    /\ furls = [r \in FileReqs |-> <<>>]
    /\ fresp = [r \in FileReqs |-> "none"]
    /\ fcount = 0
    /\ cpc = [r \in Creates |-> "idle"]
    /\ creq = [r \in Creates |-> NoCreate]
    /\ cresp = [r \in Creates |-> "none"]
    /\ spc = [u \in Updates |-> "idle"]
    /\ sreq = [u \in Updates |-> NoUpdate]
    /\ sold = [u \in Updates |-> "none"]
    /\ sresp = [u \in Updates |-> "none"]
    /\ scount = 0
    /\ LaterIdle

FormInit == SeededForms /\ SyncIdle /\ RestIdle

\* concurrent createForm, updateForm and deleteForm requests; no template
\* has a submission
FormNext ==
    \E r \in FormReqs :
        \/ FormReceive(r) \/ CreateFormStep(r) \/ UpdateFormStep(r)
        \/ DeleteFormStep(r)

FormSpec == FormInit /\ [][FormNext]_vars

\* the updateForm requests that carry a schema, for the seeded templates
SchemaUpdates ==
    {q \in FormBodies : /\ q.kind = "update" /\ q.schema = "s2"
                        /\ q.access = "perm" /\ q.id \in {1, 2}}

\* updateForm requests with a schema, of a run
MaxVersionReqs == 3

\* an updateForm request with a schema arrives, on a connection that is
\* idle or whose earlier request has ended
VersionReceive(r) ==
    /\ tpc[r] \in {"idle", "done"}
    /\ tcount < MaxVersionReqs
    /\ tcount' = tcount + 1
    /\ \E q \in SchemaUpdates : treq' = [treq EXCEPT ![r] = q]
    /\ tpc' = [tpc EXCEPT ![r] = "u_select"]
    /\ tresp' = [tresp EXCEPT ![r] = "none"]
    /\ tres' = [tres EXCEPT ![r] = NoFormRes]
    /\ UNCHANGED <<free, faults, forms, cache, sblobs, nextFormId, ttx,
                   syncVars, unitVars, fileVars, createVars, statusVars,
                   laterVars>>

\* concurrent updateForm requests that carry a schema
VersionNext ==
    \E r \in FormReqs : VersionReceive(r) \/ UpdateFormStep(r)

VersionSpec == FormInit /\ [][VersionNext]_vars

\* a deleteForm request arrives
DeleteFormReceive(r) ==
    /\ tcount < MaxDeletes
    /\ FormReceive(r)
    /\ treq'[r].kind = "delete"

\* deleteForm requests beside one syncSubmissions request
DeleteNext ==
    \/ SyncStep(1)
    \/ DeleteFormReceive(1) \/ DeleteFormStep(1) \/ DeleteFormDeactivate(1)

DeleteSpec == FormInit /\ [][DeleteNext]_vars

\* getSyncStatus on a sync_queue that runs of rows have filled over time
QueryNext == QueueRun \/ Tick \/ GetSyncStatus

QuerySpec == Init /\ [][QueryNext]_vars

\* a caller of executeTransaction whose callback calls executeTransaction
\* on the same connection, beside one syncSubmissions request on the pool
NestNext == (\E t \in Units : UnitStep(t) \/ NestedStep(t)) \/ SyncStep(1)

NestSpec == Init /\ [][NestNext]_vars

\* one syncSubmissions request whose items may carry the status 'verified'
IngestNext == SyncStep(1) \/ FetchVerified(1)

IngestSpec == Init /\ [][IngestNext]_vars

\* initiate requests as far as the object key
KeyNext == KeyReceive \/ KeyValidate \/ KeyDerive

KeySpec == Init /\ [][KeyNext]_vars

\* concurrent createSubmission requests
CreateNext == \E r \in Creates : CreateStep(r)

CreateSpec == Init /\ [][CreateNext]_vars

\* the draft of Items, and the state in which a syncSubmissions request
\* that carried it alone has committed it and answered (a state of Spec)
TheDraft == CHOOSE it \in Items : it.status = "draft"

AfterDraft ==
    /\ free = connectionLimit /\ faults = 0
    /\ blobs = [k \in Keys |-> IF k = ObjectKey(TheDraft) THEN TheDraft.data
                                ELSE NoBlob]
    /\ subs = {[id |-> 1, uuid |-> TheDraft.uuid,
                formTemplateId |-> TheDraft.formTemplateId,
                formTemplateVersion |-> TheDraft.formTemplateVersion,
                submittedBy |-> 1, status |-> TheDraft.status,
                submittedAt |-> SubmittedAt(TheDraft.status),
                verifiedBy |-> NoId, verifiedAt |-> "null",
                dataS3ObjectId |-> 1, src |-> <<1, 1>>]}
    /\ objs = {[id |-> 1, key |-> ObjectKey(TheDraft), src |-> <<1, 1>>]}
    /\ atts = {[submission |-> 1, fieldName |-> "photo", s3ObjectId |-> 7,
                pos |-> 1, src |-> <<1, 1>>]}
    /\ logs = {[user |-> 1, activity |-> "sync_submission", entity |-> 1,
                uuid |-> TheDraft.uuid, src |-> <<1, 1>>]}
    /\ queue = {[user |-> 1, device |-> "device", uuid |-> TheDraft.uuid,
                 status |-> "completed", serverId |-> 1, message |-> "none",
                 src |-> <<1, 1>>]}
    /\ users = [c \in Calls |-> IF c = 1 THEN "device" ELSE NoDevice]
    /\ templates = {1, 2}
    /\ versions = {<<1, 1, 8>>, <<2, 1, 7>>}
    /\ nextSubId = 2 /\ nextObjId = 2
    /\ pc = [c \in Calls |-> IF c = 1 THEN "done" ELSE "idle"]
    /\ req = [c \in Calls |-> IF c = 1 THEN [deviceId |-> "device", n |-> 1]
                                ELSE [deviceId |-> NoDevice, n |-> 0]]
    /\ submissions = [c \in Calls |-> IF c = 1 THEN <<TheDraft>> ELSE <<>>]
    /\ results = [c \in Calls |->
                    IF c = 1
                    THEN <<[uuid |-> TheDraft.uuid, status |-> "success",
                            message |-> "Submission synced successfully",
                            serverId |-> 1]>>
                    ELSE <<>>]
    /\ syncedCount = [c \in Calls |-> IF c = 1 THEN 1 ELSE 0]
    /\ errorCount = [c \in Calls |-> 0]
    /\ resp = [c \in Calls |-> IF c = 1 THEN "success" ELSE "none"]
    /\ tx = [c \in Calls |-> EmptyTx]
    /\ error = [c \in Calls |-> "none"]
    /\ dataS3ObjectId = [c \in Calls |-> IF c = 1 THEN 1 ELSE NoId]
    /\ submissionId = [c \in Calls |-> IF c = 1 THEN 1 ELSE NoId]
    /\ fileIdx = [c \in Calls |-> IF c = 1 THEN 3 ELSE 0]
    /\ acquired = [c \in Calls |-> IF c = 1 THEN 1 ELSE 0]
    /\ released = [c \in Calls |-> IF c = 1 THEN 1 ELSE 0]
    /\ failures = [c \in Calls |-> {}]

\* no other operation has run
OthersIdle ==
    /\ projects = {}
    /\ upc = [t \in Units |-> "idle"]
    /\ utx = [t \in Units |-> {}]
    /\ uerr = [t \in Units |-> "none"]
    /\ uout = [t \in Units |-> <<"none", "none">>]
    /\ ureleased = [t \in Units |-> 0]
    /\ uhist = [t \in Units |-> [entered |-> FALSE, raised |-> "none",
                                 result |-> "none", commits |-> 0,
                                 rollbacks |-> 0]]
    /\ uploads = [h \in Handles |-> NoUpload]
    /\ nextUpload = 1
    /\ fpc = [r \in FileReqs |-> "idle"]
    /\ freq = [r \in FileReqs |-> NoFileReq]
    /\ fres = [r \in FileReqs |-> NoId]
    /\ furls = [r \in FileReqs |-> <<>>]
    /\ fresp = [r \in FileReqs |-> "none"]
    /\ fcount = 0
    /\ cpc = [r \in Creates |-> "idle"]
    /\ creq = [r \in Creates |-> NoCreate]
    /\ cresp = [r \in Creates |-> "none"]
    /\ spc = [u \in Updates |-> "idle"]
    /\ sreq = [u \in Updates |-> NoUpdate]
    /\ sold = [u \in Updates |-> "none"]
    /\ sresp = [u \in Updates |-> "none"]
    /\ scount = 0
    /\ FormsIdle
    /\ LaterIdle

\* updateSubmissionStatus requests on the draft a device has synchronised
StatusInit == AfterDraft /\ OthersIdle

StatusNext == \E u \in Updates : StatusStep(u)

StatusSpec == StatusInit /\ [][StatusNext]_vars

\* ------------------------------------------------- claims
\* the newest entry of a call's results after a step
Last(seq) == seq[Len(seq)]

\* the committed form_submissions rows that carry a client identifier
RowsOf(uuid) == {s \in subs : s.uuid = uuid}

\* no statement of the step wrote to the relational store or the object store
NothingWritten == UNCHANGED <<tables, blobs, counters, tx>>

\* form_submissions holds at most one row per client identifier
UniqueUuid == \A s1, s2 \in subs : s1.uuid = s2.uuid => s1 = s2

\* C1 as stated: with the requests served one after the other, an item whose
\* clientId has a committed Submission is always reported 'skipped' with the
\* id of that row, writes nothing and is not counted in synced, and at most
\* one Submission row exists per clientId.
C1_SkippedAlways ==
    [][ /\ UniqueUuid'
        /\ \A c \in Calls :
             (pc[c] = "dupcheck" /\ RowsOf(Cur(c).uuid) # {}) =>
                /\ Len(results'[c]) = Len(results[c]) + 1
                /\ Last(results'[c]).status = "skipped"
                /\ Last(results'[c]).uuid = Cur(c).uuid
                /\ Last(results'[c]).serverId \in {s.id : s \in RowsOf(Cur(c).uuid)}
                /\ syncedCount'[c] = syncedCount[c]
                /\ NothingWritten ]_vars

\* C1 amended: with the requests served one after the other, an item whose
\* clientId has a committed Submission is reported 'skipped' with the id of
\* that row when the duplicate lookup returns, and 'error' when the lookup
\* itself throws; either way it writes nothing and is not counted in synced,
\* and at most one Submission row exists per clientId.
C1_SkippedUnlessLookupFails ==
    [][ /\ UniqueUuid'
        /\ \A c \in Calls :
             (pc[c] = "dupcheck" /\ RowsOf(Cur(c).uuid) # {}) =>
                /\ Len(results'[c]) = Len(results[c]) + 1
                /\ Last(results'[c]).uuid = Cur(c).uuid
                /\ \/ /\ Last(results'[c]).status = "skipped"
                      /\ Last(results'[c]).serverId \in
                            {s.id : s \in RowsOf(Cur(c).uuid)}
                      /\ errorCount'[c] = errorCount[c]
                   \/ /\ Last(results'[c]).status = "error"
                      /\ Last(results'[c]).message = "query failed"
                      /\ faults' = faults + 1
                /\ syncedCount'[c] = syncedCount[c]
                /\ NothingWritten ]_vars

\* a clientId ingested by one request is skipped, with the same server id,
\* by a later request and by a later item of the same batch
C1_Witness ==
    \E c, d \in Calls :
        /\ c # d /\ pc[c] = "done" /\ pc[d] = "done"
        /\ Len(results[c]) = 1 /\ Len(results[d]) = 2
        /\ results[c][1].status = "success"
        /\ results[d][1].status = "skipped"
        /\ results[d][2].status = "skipped"
        /\ results[d][1].uuid = results[c][1].uuid
        /\ results[d][2].uuid = results[c][1].uuid
        /\ results[d][1].serverId = results[c][1].serverId
        /\ results[d][2].serverId = results[c][1].serverId
        /\ Cardinality(subs) = 1

\* item k of call c has its result
ItemDone(c, k) == Len(results[c]) >= k

\* the rows of a table written by item k of call c
From(table, c, k) == {r \in table : r.src = <<c, k>>}

\* the failures raised inside the transaction of item k of call c
TxFailures(c, k) == {f \in failures[c] : f[1] = k /\ f[2] = "tx"}

\* those of them raised by a step after the transaction began
StepFailures(c, k) == {f \in TxFailures(c, k) : f[3] # "begin failed"}

\* C2: if any step after the transaction of an item begins fails, then once
\* the item is finished no Submission, Object Record, attachment, audit-log
\* row or 'completed' Sync Queue Entry of the item is persisted, and a
\* 'failed' Sync Queue Entry of the item is persisted.
C2_Atomic ==
    \A c \in Calls : \A k \in 1..Len(results[c]) :
        StepFailures(c, k) # {} =>
            /\ From(subs, c, k) = {}
            /\ From(objs, c, k) = {}
            /\ From(atts, c, k) = {}
            /\ From(logs, c, k) = {}
            /\ {q \in From(queue, c, k) : q.status = "completed"} = {}
            /\ \E q \in From(queue, c, k) :
                  q.status = "failed" /\ q.uuid = submissions[c][k].uuid

\* item k of call c is well formed and nothing failed while it was processed
Sound(c, k) ==
    /\ submissions[c][k].formTemplateId \in templates
    /\ <<submissions[c][k].formTemplateId,
         submissions[c][k].formTemplateVersion>> \in VersionPairs
    /\ \A f \in failures[c] : f[1] # k

\* the attachments of an item that carry an identifier
Resolved(files) == {i \in 1..Len(files) : files[i].s3ObjectId # NoId}

\* item k of call c is committed in full under server id
Committed(c, k, id) ==
    /\ \E s \in From(subs, c, k) :
          /\ s.id = id /\ s.uuid = submissions[c][k].uuid
          /\ \E o \in From(objs, c, k) : o.id = s.dataS3ObjectId
    /\ {a.pos : a \in From(atts, c, k)} = Resolved(submissions[c][k].files)
    /\ \E l \in From(logs, c, k) : l.entity = id
    /\ \E q \in From(queue, c, k) : q.status = "completed" /\ q.serverId = id

\* C3: the failure of one item of a batch neither ends the batch nor touches
\* another item: once the loop has started the call answers only after every
\* item has its result; an item is reported 'error' only for a failure of
\* its own; every item reported 'success' is committed in full and stays so.
C3_Isolation ==
    \A c \in Calls :
        /\ (pc[c] = "done" /\ Len(submissions[c]) > 0) =>
              (Len(results[c]) = req[c].n /\ resp[c] = "success")
        /\ \A k \in 1..Len(results[c]) :
              /\ results[c][k].uuid = submissions[c][k].uuid
              /\ results[c][k].status = "error" => ~Sound(c, k)
              /\ Sound(c, k) => results[c][k].status \in {"success", "skipped"}
              /\ results[c][k].status = "success" =>
                    Committed(c, k, results[c][k].serverId)

\* a batch whose first item failed inside its transaction and whose second
\* item was committed
C3_Witness ==
    \E c \in Calls :
        /\ pc[c] = "done" /\ Len(results[c]) = 2
        /\ TxFailures(c, 1) # {}
        /\ results[c][1].status = "error"
        /\ results[c][2].status = "success"
        /\ Committed(c, 2, results[c][2].serverId)
        /\ syncedCount[c] = 1 /\ errorCount[c] = 1

\* the items reported 'success' for a client identifier
Successes(uuid) ==
    {<<c, k>> \in Calls \X (1..MaxItems) :
        ItemDone(c, k) /\ results[c][k].uuid = uuid
                       /\ results[c][k].status = "success"}

\* C4: whatever the interleaving of two requests that carry the same
\* clientId, at most one Submission row with that clientId is committed and
\* at most one item is reported 'success' for it.
C4_FirstWriterWins ==
    /\ UniqueUuid
    /\ \A it \in Items : Cardinality(Successes(it.uuid)) <= 1

\* both requests passed the duplicate check for one clientId; one committed
\* and the other was refused by the unique constraint
C4_Witness ==
    \E c, d \in Calls :
        /\ c # d /\ ItemDone(c, 1) /\ ItemDone(d, 1)
        /\ results[c][1].uuid = results[d][1].uuid
        /\ results[c][1].status = "success"
        /\ results[d][1].status = "error"
        /\ <<1, "tx", "Duplicate entry for form_submissions uuid">> \in failures[d]

\* the blob stored under the payload key of a Submission row
BlobOf(store, s) == store[<<s.formTemplateId, s.uuid>>]

\* C5: once a Submission is committed, no step of any ingestion attempt
\* changes the blob stored under that Submission's payload key.
C5_NeverOverwritten ==
    [][\A s \in subs : BlobOf(blobs', s) = BlobOf(blobs, s)]_vars

\* the messages of the failures raised by the unique constraint on
\* form_submissions.uuid
UuidViolation == "Duplicate entry for form_submissions uuid"

\* C6: an item that passed the duplicate check and whose Submission insert
\* was refused by the unique constraint on the client identifier is
\* reported 'skipped'.
C6_ViolationSkipped ==
    \A c \in Calls : \A k \in 1..Len(results[c]) :
        <<k, "tx", UuidViolation>> \in failures[c] =>
            results[c][k].status = "skipped"

\* C7: every finished item with a failure inside its transaction has a
\* persisted 'failed' Sync Queue Entry for its user, device and clientId
\* that carries the message of that failure.
C7_FailureRecorded ==
    \A c \in Calls : \A k \in 1..Len(results[c]) :
        \A f \in TxFailures(c, k) :
            \E q \in From(queue, c, k) :
                /\ q.status = "failed"
                /\ q.uuid = submissions[c][k].uuid
                /\ q.user = c
                /\ q.device = req[c].deviceId
                /\ q.message = f[3]

\* the positions of syncSubmissions between getConnection and release
InBlock ==
    {"begin", "put", "insobj", "inssub", "insfile", "inslog", "insqueue",
     "commit", "rollback", "insfailed"}

\* the positions of executeTransaction between its entry and its exit
InUnit == {"begin", "callback", "commit", "rollback"}

\* C8: executeTransaction releases its connection exactly once on every exit
\* path and never before the exit; the transaction block of syncSubmissions
\* releases each connection it reserved exactly once; no connection of the
\* pool is lost.
C8_ReleasedOnce ==
    /\ \A t \in Units :
          /\ upc[t] \in InUnit => ureleased[t] = 0
          /\ upc[t] = "done" =>
                ureleased[t] = (IF uhist[t].entered THEN 1 ELSE 0)
    /\ \A c \in Calls :
          acquired[c] = released[c] + (IF pc[c] \in InBlock THEN 1 ELSE 0)
    /\ free = connectionLimit
                - Cardinality({t \in Units : upc[t] \in InUnit})
                - Cardinality({c \in Calls : pc[c] \in InBlock})

\* executeTransaction left through a catch block whose rollback threw, and
\* the transaction block of syncSubmissions has finished an item
C8_Witness ==
    /\ \E t \in Units :
          /\ upc[t] = "done"
          /\ uout[t] = <<"threw", "rollback failed">>
          /\ ureleased[t] = 1
    /\ released[1] >= 1

\* the rows a unit of work has committed
UnitRows(t) == {r \in projects : r.unit = t}

\* C9: when begin, callback and commit succeed the unit of work is
\* committed, not rolled back, and the callback's result is returned; when
\* one of them raises a failure, rollback is invoked, nothing of the unit is
\* committed and the caller observes that same failure.
C9_Outcome ==
    \A t \in Units :
        (upc[t] = "done" /\ uhist[t].entered) =>
            IF uhist[t].raised = "none"
            THEN /\ uhist[t].commits = 1 /\ uhist[t].rollbacks = 0
                 /\ UnitRows(t) # {}
                 /\ uout[t] = <<"returned", uhist[t].result>>
            ELSE /\ uhist[t].rollbacks = 1
                 /\ UnitRows(t) = {}
                 /\ uout[t] = <<"threw", uhist[t].raised>>

\* C10: as long as a call has not answered or holds a connection, some call
\* can take a step: no state is reached in which every unfinished call waits
\* for a connection of the pool.
C10_NoStarvation ==
    (\A c \in Calls : pc[c] = "done" /\ acquired[c] = released[c])
        \/ ENABLED Next

\* the ledger holds an Object Record under the key of upload h
HasRecord(h) == \E o \in objs : o.key = UploadKey(h)

\* a completeMultipartUpload request for upload h has not finished
Completing(h) ==
    \E r \in FileReqs :
        /\ freq[r].kind = "complete" /\ freq[r].h = h
        /\ fpc[r] \in {"complete", "insert", "select", "url"}

\* C11: an Object Record exists under an upload's key only if the upload is
\* completed in the Object Store, and every upload completed in the Object
\* Store has its Object Record once no completeMultipartUpload request for
\* it is still running.
C11_LedgerIffCompleted ==
    \A h \in Handles :
        /\ HasRecord(h) => uploads[h].state = "completed"
        /\ (uploads[h].state = "completed" /\ ~Completing(h)) => HasRecord(h)

\* the answer of a request that the Object Store refused to complete
StoreFailure == "Failed to complete multipart upload"

\* C12: a completeMultipartUpload request whose completion the Object Store
\* refuses (unknown or aborted upload id, part not uploaded, wrong ETag)
\* ends with a store failure in that very step and leaves the ledger of
\* Object Records unchanged.
C12_RejectedCompletion ==
    [][\A r \in FileReqs :
          (fpc[r] = "complete" /\ fpc'[r] # "complete" /\ StoreRejects(freq[r])) =>
             /\ fpc'[r] = "done"
             /\ fresp'[r] = StoreFailure
             /\ objs' = objs /\ nextObjId' = nextObjId]_vars

\* an upload was initiated and aborted, and a later completion of it under
\* its own key was refused
C12_Witness ==
    \E r \in FileReqs :
        /\ fpc[r] = "done" /\ freq[r].kind = "complete"
        /\ fresp[r] = StoreFailure
        /\ uploads[freq[r].h].state = "aborted"
        /\ freq[r].key = freq[r].h
        /\ ~HasRecord(freq[r].h)

\* the item names a template or a (template, version) pair that is not there
Invalid(it) ==
    \/ it.formTemplateId \notin templates
    \/ <<it.formTemplateId, it.formTemplateVersion>> \notin VersionPairs

\* call c is working on an item, and the step is one of call c
Processing(c) ==
    pc[c] \in {"dupcheck", "tplcheck", "vercheck", "getconn"} \cup InBlock
Moved(c) == pc'[c] # pc[c] \/ results'[c] # results[c]

\* the step appends an 'error' result with a reason for the current item
ErrorPushed(c) ==
    /\ Len(results'[c]) = Len(results[c]) + 1
    /\ Last(results'[c]).uuid = Cur(c).uuid
    /\ Last(results'[c]).status = "error"
    /\ Last(results'[c]).message \notin {"", "none"}
    /\ errorCount'[c] = errorCount[c] + 1

\* no step on an invalid item reserves a connection, opens a transaction or
\* writes to the object store or to any table
InvalidWritesNothing ==
    \A c \in Calls :
        (Processing(c) /\ Invalid(Cur(c)) /\ Moved(c)) =>
            /\ UNCHANGED <<blobs, tables, counters, tx, free, poolHist>>
            /\ pc'[c] \notin InBlock \cup {"getconn"}

\* C13 as stated: every item whose template or (template, version) pair
\* does not exist is reported 'error', and no step on it reserves a
\* connection or writes anything.
C13_InvalidIsError ==
    [][ /\ InvalidWritesNothing
        /\ \A c \in Calls :
             (Processing(c) /\ Invalid(Cur(c)) /\ Len(results'[c]) > Len(results[c]))
                 => ErrorPushed(c) ]_vars

\* C13 amended: an item that reaches the referential validation (its
\* clientId was not found by the duplicate check) and whose template or
\* (template, version) pair does not exist is reported 'error' with a reason
\* by the failing check; an invalid item whose clientId is already committed
\* is reported 'skipped' by the duplicate check before; in no case does a
\* step on an invalid item reserve a connection or write anything.
C13_InvalidIsErrorUnlessDuplicate ==
    [][ /\ InvalidWritesNothing
        /\ \A c \in Calls :
             /\ (pc[c] \in {"tplcheck", "vercheck"} /\ Invalid(Cur(c))
                   /\ Len(results'[c]) > Len(results[c])) => ErrorPushed(c)
             /\ (pc[c] = "tplcheck" /\ Cur(c).formTemplateId \notin templates
                   /\ Moved(c)) => ErrorPushed(c)
             /\ (pc[c] = "vercheck" /\ Invalid(Cur(c)) /\ Moved(c))
                   => ErrorPushed(c)
             /\ (pc[c] = "dupcheck" /\ Invalid(Cur(c))
                   /\ Len(results'[c]) > Len(results[c])) =>
                     \/ ErrorPushed(c)
                     \/ /\ Last(results'[c]).status = "skipped"
                        /\ RowsOf(Cur(c).uuid) # {}
                        /\ UNCHANGED <<syncedCount, errorCount>> ]_vars

\* both checks have refused an item of a call that never reserved a
\* connection
C13_Witness ==
    \E c \in Calls :
        /\ Len(results[c]) = 2
        /\ {results[c][1].message, results[c][2].message} =
              {"Form template not found", "Form template version not found"}
        /\ errorCount[c] = 2 /\ acquired[c] = 0
        /\ From(queue, c, 1) = {} /\ From(queue, c, 2) = {}

\* the results of call c that carry a status
WithStatus(c, st) == {k \in 1..Len(results[c]) : results[c][k].status = st}

\* C14: a response that carries results has exactly one entry per item of
\* the batch, the k-th entry for the k-th item, and the counts add up; the
\* loop works on one item at a time in input order: the item in work is the
\* first one without result and the open transaction holds rows of no other.
C14_ResultShape ==
    \A c \in Calls :
        /\ Len(results[c]) <= req[c].n
        /\ \A k \in 1..Len(results[c]) :
              results[c][k].uuid = submissions[c][k].uuid
        /\ resp[c] = "success" =>
              /\ Len(results[c]) = req[c].n
              /\ Len(submissions[c]) = req[c].n
              /\ syncedCount[c] = Cardinality(WithStatus(c, "success"))
              /\ errorCount[c] = Cardinality(WithStatus(c, "error"))
              /\ Cardinality(WithStatus(c, "skipped")) =
                    req[c].n - syncedCount[c] - errorCount[c]
        /\ Processing(c) => Item(c) = Len(results[c]) + 1
        /\ pc[c] \in {"fetch", "done"} => Item(c) = Len(results[c])
        /\ \A t \in {tx[c].subs, tx[c].objs, tx[c].atts, tx[c].logs, tx[c].queue} :
              \A row \in t : row.src = <<c, Item(c)>>

\* a batch of two answered after its first item failed in the transaction
\* and again in the rollback, and its second item was skipped or committed
C14_Witness ==
    \E c \in Calls :
        /\ pc[c] = "done" /\ resp[c] = "success" /\ req[c].n = 2
        /\ <<1, "catch", "rollback failed">> \in failures[c]
        /\ results[c][1].status = "error"
        /\ results[c][2].status = "success"

\* the user of a createSubmission request may submit to the template
Authorized(q) == q.mayCreateProject \/ q.member

\* C15: a createSubmission request for an existing template and version,
\* by an authorized user, with a clientId not in use, whose lookups did not
\* fail, ends with the created Submission: its row, the Object Record of
\* its payload and an audit-log row are committed and the response carries
\* the new server id.
C15_Created ==
    \A r \in Creates :
        (/\ cpc[r] = "done"
         /\ ~Invalid(creq[r].body) /\ Authorized(creq[r])
         /\ cresp[r] # "query failed") =>
            /\ cresp[r] = "created"
            /\ \E s \in RowsOf(creq[r].body.uuid) :
                  /\ \E o \in objs : o.id = s.dataS3ObjectId
                  /\ \E l \in logs : l.entity = s.id

\* the Submission rows a step writes
NewRows ==
    (subs' \ subs) \cup UNION {tx'[c].subs \ tx[c].subs : c \in Calls}

\* C16: every Submission row written at ingestion has submittedAt = null if
\* and only if its status is 'draft', and the ingestion time otherwise; the
\* rule computed in createSubmission's callback is the same.
C16_DraftTimestamp ==
    [][ /\ \A s \in NewRows :
              /\ s.submittedAt \in {"null", "now"}
              /\ s.submittedAt = "null" <=> s.status = "draft"
        /\ \A it \in Items :
              CreateSubmittedAt(it.status) = "null" <=> it.status = "draft" ]_vars

\* a draft is committed without timestamp and reported 'success'
C16_Witness ==
    \E s \in subs :
        /\ s.status = "draft" /\ s.submittedAt = "null"
        /\ \E c \in Calls : \E k \in 1..Len(results[c]) :
              results[c][k].status = "success" /\ results[c][k].serverId = s.id

\* C17: every Submission whose status is not 'draft' has a submittedAt.
C17_TimestampedUnlessDraft ==
    \A s \in subs : s.status # "draft" => s.submittedAt # "null"

\* how far a status is along draft -> submitted -> (verified | rejected)
Rank(status) ==
    CASE status = "draft" -> 0
      [] status = "submitted" -> 1
      [] OTHER -> 2

\* C18: no step moves the status of a Submission backward, and no step
\* changes a status that is 'verified' or 'rejected'.
C18_ForwardOnly ==
    [][\A s \in subs : \A t \in subs' :
          t.id = s.id =>
             /\ Rank(t.status) >= Rank(s.status)
             /\ Rank(s.status) = 2 => t.status = s.status]_vars

\* C19: a persisted Sync Queue Entry is never changed and never deleted:
\* every entry of the table is still in the table, field for field, after
\* any step of any operation.
C19_EntriesImmutable == [][\A q \in queue : q \in queue']_vars

\* two items of one request have both left an entry with the same key, the
\* later insert without touching the earlier entry
C19_Witness ==
    \E q1 \in queue : \E q2 \in queue :
        /\ q1.src[1] = q2.src[1] /\ q1.src[2] < q2.src[2]
        /\ <<q1.user, q1.device, q1.uuid>> = <<q2.user, q2.device, q2.uuid>>
        /\ q2.status = "failed"

\* the persisted Sync Queue Entries with a status for the key (user, device,
\* clientId) of item k of call c
Recorded(c, k, st) ==
    {q \in queue : /\ q.status = st
                   /\ q.user = c
                   /\ q.device = req[c].deviceId
                   /\ q.uuid = submissions[c][k].uuid}

\* C20: once syncSubmissions has responded, every item reported 'success'
\* has a persisted 'completed' Sync Queue Entry for its (user, device,
\* clientId) and every item reported 'error' has a persisted 'failed' one.
C20_OutcomeRecorded ==
    \A c \in Calls :
        resp[c] = "success" =>
            \A k \in 1..Len(results[c]) :
                /\ results[c][k].status = "success" =>
                       Recorded(c, k, "completed") # {}
                /\ results[c][k].status = "error" =>
                       Recorded(c, k, "failed") # {}

\* the half of C20 about 'success' results, which the commit of lines
\* 204-224 guarantees
SuccessRecorded ==
    \A c \in Calls : \A k \in 1..Len(results[c]) :
        results[c][k].status = "success" => Recorded(c, k, "completed") # {}

\* the requests that register an Object Record, and the ones among them
\* that were answered with the record's identifier
Registering == {r \in FileReqs : freq[r].kind \in {"complete", "register"}}
Registered ==
    {r \in Registering : fpc[r] = "done" /\ fresp[r] = "success"}

\* the step of request r executes its INSERT ... ON DUPLICATE KEY UPDATE
Upserts(r) ==
    /\ r \in Registering
    /\ fpc[r] \in {"insert", "register"}
    /\ fpc'[r] \in {"select", "url", "regselect", "regurl"}

\* C21: the ledger holds at most one Object Record per key; every request
\* that registers a key is answered with the identifier of the record of
\* that key, so two registrations of one key are answered with the same
\* identifier; and a registration of a key that has a record adds no row
\* and leaves that record with its identifier and the new metadata.
C21_UniqueUpsert ==
    /\ [](\A o1 \in objs : \A o2 \in objs : o1.key = o2.key => o1.id = o2.id)
    /\ [](\A r \in Registered :
            /\ \E o \in objs : o.key = freq[r].objectKey /\ o.id = fres[r]
            /\ \A r2 \in Registered :
                  freq[r2].objectKey = freq[r].objectKey => fres[r2] = fres[r])
    /\ [][\A r \in FileReqs :
            (Upserts(r) /\ KeyTaken(freq[r].objectKey)) =>
               /\ Cardinality(objs') = Cardinality(objs)
               /\ \A o \in objs : o.key = freq[r].objectKey =>
                     \E n \in objs' :
                        /\ n.id = o.id /\ n.key = o.key
                        /\ n.meta = freq[r].meta
                        /\ fres'[r] \in {NoId, o.id}]_vars

\* a multipart completion and a completeFileUpload of the same key with
\* other metadata were both answered, with the same identifier
C21_Witness ==
    \E r1 \in Registered : \E r2 \in Registered :
        /\ freq[r1].kind = "complete" /\ freq[r2].kind = "register"
        /\ freq[r1].objectKey = freq[r2].objectKey
        /\ freq[r1].meta # freq[r2].meta
        /\ fres[r1] = fres[r2] /\ fres[r1] # NoId
        /\ \E o \in objs : o.id = fres[r1] /\ o.meta \in Metas

\* C22: when the INSERT INTO s3_objects of an item runs while the ledger
\* has an Object Record under the item's key and no Submission has the
\* item's clientId, the statement does not fail the item: the item goes on
\* with the identifier of that record and the ledger keeps one record for
\* the key.
C22_IngestionUpserts ==
    [][\A c \in Calls :
          (/\ pc[c] = "insobj" /\ pc'[c] # "insobj"
           /\ KeyTaken(ObjectKey(Cur(c)))
           /\ ~UuidTaken(Cur(c).uuid)
           /\ error'[c] # "insert s3_objects failed") =>
             /\ pc'[c] = "inssub"
             /\ \E o \in objs' :
                   o.key = ObjectKey(Cur(c)) /\ o.id = dataS3ObjectId'[c]
             /\ Cardinality({o \in objs' : o.key = ObjectKey(Cur(c))}) = 1]_vars

\* the committed Submissions and attachments that reference Object Record id
Referencing(id) ==
    {x \in subs : x.dataS3ObjectId = id} \cup {x \in atts : x.s3ObjectId = id}

\* C23: no step removes an Object Record from the ledger while a committed
\* Submission (as its payload) or a committed attachment references it.
C23_ReferencedNotDeleted ==
    [][\A o \in objs :
          Referencing(o.id) # {} => \E n \in objs' : n.id = o.id]_vars

\* the rows that were in the table when getSyncStatus ran and that its
\* query selects
Qualifying == {i \in 1..qreq.rows : Selected(stamps[i], qreq)}

\* the rows getSyncStatus returned
Returned == {completedItems[k] : k \in 1..Len(completedItems)}

\* C24: the completed items of getSyncStatus are rows of the user and the
\* device with status 'completed' and updated within the 24 hours before
\* the request, each once, most recent first, at most 50, and when more
\* than 50 rows qualify they are 50 rows none of which is older than a
\* qualifying row left out.
C24_RecentCompleted ==
    qreq.user # 0 =>
        /\ Returned \subseteq Qualifying
        /\ \A i \in Returned :
              /\ stamps[i].status = "completed"
              /\ stamps[i].user = qreq.user /\ stamps[i].device = qreq.device
              /\ stamps[i].updatedAt >= qreq.at - 24
        /\ Cardinality(Returned) = Len(completedItems)
        /\ \A k \in 1..(Len(completedItems) - 1) :
              stamps[completedItems[k]].updatedAt
                  >= stamps[completedItems[k + 1]].updatedAt
        /\ Len(completedItems) <= 50
        /\ Cardinality(Qualifying) > 50 =>
              /\ Len(completedItems) = 50
              /\ \A i \in Qualifying \ Returned : \A j \in Returned :
                    stamps[j].updatedAt >= stamps[i].updatedAt

\* more than 50 rows qualified, written in two different hours, the oldest
\* of them exactly 24 hours before the request; 50 were returned and a row
\* left out is older than a row returned
C24_Witness ==
    /\ qreq.user # 0
    /\ Cardinality(Qualifying) > 50
    /\ Len(completedItems) = 50
    /\ \E i \in Qualifying \ Returned : \E j \in Returned :
          /\ stamps[j].updatedAt > stamps[i].updatedAt
          /\ stamps[i].updatedAt = qreq.at - 24

\* C25: a syncSubmissions request that carries a device identifier and a
\* non-empty batch is answered with success and one result per item,
\* whatever awaited call failed while it ran; only a request without device
\* identifier or without items is answered with a top-level error.
C25_AlwaysBreakdown ==
    \A c \in Calls :
        (pc[c] = "done" /\ req[c].deviceId # NoDevice /\ req[c].n > 0) =>
            /\ resp[c] = "success"
            /\ Len(results[c]) = req[c].n

\* C26: an executeTransaction called on a connection that is inside an
\* unfinished executeTransaction begins no transaction, neither commits nor
\* rolls back the outer transaction, and does not release the connection,
\* so that the connection is released once, by the outer call.
C26_NestingRejected ==
    \A t \in Units :
        /\ nest[t].begins = 0
        /\ nest[t].outerEnded = 0
        /\ nest[t].releases = 0
        /\ ureleased[t] <= 1

\* the initiateMultipartUpload requests answered with success
Initiated ==
    {r \in FileReqs :
        freq[r].kind = "initiate" /\ fpc[r] = "done" /\ fresp[r] = "success"}

\* C27: initiateMultipartUpload with N parts opens exactly one upload and
\* returns exactly N signed part URLs, numbered 1..N in ascending order,
\* each for the derived key and the upload handle of the response.
C27_OneUploadNParts ==
    /\ [](\A r \in Initiated :
            /\ uploads[freq[r].h].state # "none"
            /\ Len(furls[r]) = freq[r].n
            /\ \A i \in 1..Len(furls[r]) :
                  /\ furls[r][i].partNumber = i
                  /\ furls[r][i].key = UploadKey(freq[r].key)
                  /\ furls[r][i].uploadId = freq[r].h)
    /\ [][\A r \in FileReqs :
            freq[r].kind = "initiate" /\ fpc[r] # fpc'[r] =>
                IF fpc[r] = "initiate" /\ fpc'[r] = "sign"
                THEN /\ nextUpload' = nextUpload + 1
                     /\ freq'[r].h = nextUpload
                     /\ uploads[nextUpload].state = "none"
                ELSE nextUpload' = nextUpload]_vars

\* an initiate request for the largest number of parts was answered
C27_Witness ==
    \E r \in Initiated : freq[r].n = MaxParts /\ Len(furls[r]) = MaxParts

\* the form_submission_files rows of item k of call c that stand for the
\* attachment at position i of the input
RowsFor(c, k, i) == {a \in From(atts, c, k) : a.pos = i}

C29_SchemaNeverReplaced ==
    [][\A key \in SchemaKeys :
          (\E o \in objs : o.key = key) => sblobs'[key] = sblobs[key]]_vars

\* the namespace the context of a body selects: submission before form
\* template before project, the user's own when there is none
Selects(q) ==
    IF q.submissionUuid # "none" THEN "submissions"
    ELSE IF q.formTemplateId # 0 THEN "forms"
    ELSE IF q.projectId # 0 THEN "projects"
    ELSE "users"

\* C30: the key of initiateMultipartUpload lies in the one namespace its
\* context selects, by the precedence submission, form template, project,
\* user; and a request that names a file and has none of the three
\* contexts is accepted and keyed under the user namespace.
C30_KeyNamespace ==
    /\ kpc = "keyed" => kkey.ns = Selects(kreq)
    /\ (kreq.named /\ ~HasContext(kreq)) => kpc # "rejected"

\* C31: in a response of syncSubmissions, synced is the number of 'success'
\* results, errors the number of 'error' results, 'skipped' results are in
\* neither, and the three numbers add up to the number of input items.
C31_CountsConsistent ==
    \A c \in Calls :
        (pc[c] = "done" /\ resp[c] = "success") =>
            /\ syncedCount[c] = Cardinality(WithStatus(c, "success"))
            /\ errorCount[c] = Cardinality(WithStatus(c, "error"))
            /\ syncedCount[c] + errorCount[c]
                   + Cardinality(WithStatus(c, "skipped")) = req[c].n
            /\ Len(results[c]) = req[c].n

\* one response reports a skipped item beside a failed one, another a
\* synced item
C31_Witness ==
    \E c, d \in Calls :
        /\ pc[c] = "done" /\ resp[c] = "success"
        /\ syncedCount[c] = 0 /\ errorCount[c] = 1
        /\ WithStatus(c, "skipped") # {}
        /\ pc[d] = "done" /\ resp[d] = "success" /\ syncedCount[d] = 1

\* C32: a connection goes back to the pool without an open transaction:
\* when a createForm, updateForm or deleteForm request has ended, the
\* transaction it began on its connection was committed or rolled back.
C32_NoOpenTransactionReleased ==
    \A r \in FormReqs : tpc[r] = "done" => ~ttx[r].open

\* the 'completed' Sync Queue entries
CompletedEntries == {q \in queue : q.status = "completed"}

\* C33: every 'completed' Sync Queue entry carries the id of a committed
\* Submission with the entry's client identifier, and every Submission
\* created by syncSubmissions has exactly one such entry.
C33_CompletedPointToSubmissions ==
    /\ \A q \in CompletedEntries :
          \E s \in subs : s.id = q.serverId /\ s.uuid = q.uuid
    /\ \A s \in subs :
          Cardinality({q \in CompletedEntries : q.serverId = s.id}) = 1

\* a Submission is committed with its entry after an attempt that left a
\* 'failed' entry for the same client identifier
C33_Witness ==
    \E s \in subs : \E q \in CompletedEntries : \E f \in queue :
        /\ q.serverId = s.id
        /\ f.status = "failed" /\ f.uuid = s.uuid

\* C34: every Object Record of the submissions bucket refers to a key
\* under which the Object Store holds a blob.
C34_RecordHasBlob ==
    \A o \in objs : o.key \in RegisterKeys => ObjectStored(o.key)

\* a record stands for a stored blob while another key holds a blob that a
\* failed ingestion left without record
C34_Witness ==
    /\ \E o \in objs : o.key \in Keys /\ ObjectStored(o.key)
    /\ \E k \in Keys :
          /\ blobs[k] # NoBlob
          /\ ~\E o \in objs : o.key = k
          /\ pc[1] = "done"

\* an attempt other than item k of call c left a 'failed' entry for uuid
FailedElsewhere(c, k, uuid) ==
    \E f \in queue : f.status = "failed" /\ f.uuid = uuid /\ f.src # <<c, k>>

\* C35: an item whose client identifier has a 'failed' entry from an
\* earlier attempt is tried again: it is reported 'skipped' only when a
\* Submission committed with its 'completed' entry exists, 'error' only for
\* a failure of this attempt, and when it is reported 'success' there is
\* exactly one Submission for the identifier, with its 'completed' entry
\* beside the 'failed' one; no entry is ever removed.
C35_FailedCanBeRetried ==
    /\ [](\A c \in Calls : \A k \in 1..Len(results[c]) :
            LET u == submissions[c][k].uuid IN
            FailedElsewhere(c, k, u) =>
                /\ results[c][k].status = "skipped" =>
                      \E s \in subs : \E q \in CompletedEntries :
                          /\ s.uuid = u /\ s.id = results[c][k].serverId
                          /\ q.serverId = s.id
                /\ results[c][k].status = "error" => ~Sound(c, k)
                /\ results[c][k].status = "success" =>
                      /\ Cardinality({s \in subs : s.uuid = u}) = 1
                      /\ \E q \in From(queue, c, k) :
                            q.status = "completed" /\ q.uuid = u)
    /\ [][queue \subseteq queue']_vars

\* an item is reported 'success' after an attempt for the same client
\* identifier failed inside its transaction
C35_Witness ==
    \E c \in Calls : \E k \in 1..Len(results[c]) :
        /\ results[c][k].status = "success"
        /\ \E d \in Calls : \E f \in failures[d] :
              /\ f[2] = "tx"
              /\ <<d, f[1]>> # <<c, k>>
              /\ f[1] <= Len(submissions[d])
              /\ submissions[d][f[1]].uuid = submissions[c][k].uuid
              /\ \E q \in From(queue, d, f[1]) : q.status = "failed"

\* C36: every committed Submission refers to a form template and a template
\* version that exist: deleteForm removes no template that has a Submission.
C36_SubmissionKeepsTemplate ==
    \A s \in subs :
        /\ s.formTemplateId \in templates
        /\ <<s.formTemplateId, s.formTemplateVersion>> \in VersionPairs

\* C37: every Submission whose status is 'verified' or 'rejected' has a
\* verifier and a verification time; no ingestion creates a Submission in
\* one of these statuses.
C37_VerifiedHasVerifier ==
    \A s \in subs :
        s.status \in {"verified", "rejected"} =>
            s.verifiedBy # NoId /\ s.verifiedAt # "null"

\* the rows of a list getSyncStatus returned
RowsIn(list) == {list[k] : k \in 1..Len(list)}

\* C38: the lists getSyncStatus returns for a user and a device hold only
\* rows of that user and that device; the pending list holds exactly the
\* rows of the two with status 'pending' or 'failed', each once, the most
\* recently created first.
C38_ScopedToCaller ==
    qreq.user # 0 =>
        /\ \A i \in RowsIn(pendingItems) \cup RowsIn(completedItems) :
              stamps[i].user = qreq.user /\ stamps[i].device = qreq.device
        /\ RowsIn(pendingItems) =
              {i \in 1..qreq.rows :
                  /\ stamps[i].user = qreq.user
                  /\ stamps[i].device = qreq.device
                  /\ stamps[i].status \in {"pending", "failed"}}
        /\ Cardinality(RowsIn(pendingItems)) = Len(pendingItems)
        /\ \A k \in 1..(Len(pendingItems) - 1) :
              stamps[pendingItems[k]].updatedAt
                  >= stamps[pendingItems[k + 1]].updatedAt

\* failed rows of the caller were returned as pending while a failed row
\* of the caller's other device was left out
C38_Witness ==
    /\ qreq.user # 0
    /\ Len(pendingItems) >= 2
    /\ \E i \in 1..qreq.rows :
          /\ stamps[i].status \in {"pending", "failed"}
          /\ stamps[i].user = qreq.user /\ stamps[i].device # qreq.device


\* the form_template_versions rows of a template
VersionRows(id) == {v \in versions : v[1] = id}

\* an updateForm request that carried a schema for a template and ended
SchemaUpdateDone(r, id) ==
    /\ tpc[r] = "done" /\ treq[r].kind = "update"
    /\ treq[r].id = id /\ treq[r].schema = "s2"

\* C39: the version rows of every template are exactly 1..V, V the current
\* version of the template, each version once, and the schema record of the
\* template is the one of version row V, whatever the interleaving of the
\* updateForm requests that carry a schema
C39_VersionsContiguous ==
    \A f \in forms :
        /\ {v[2] : v \in VersionRows(f.id)} = 1..f.version
        /\ Cardinality(VersionRows(f.id)) = f.version
        /\ <<f.id, f.version, f.schema>> \in versions

\* two updateForm requests with a schema read the same version of one
\* template: one wrote version 2, the other met the taken key
C39_Witness ==
    \E f \in forms :
        /\ f.version = 2
        /\ \A r \in FormReqs : SchemaUpdateDone(r, f.id)
        /\ \E r \in FormReqs : tresp[r] = "success"
        /\ \E r \in FormReqs : tresp[r] = "Duplicate entry for s3_objects key"

====
